---- MODULE Spec2Model ----
(***************************************************************************)
(* Model of the per-canister message queues of the replicated state:       *)
(* CanisterQueues (queues.rs) on top of MessagePool (message_pool.rs).     *)
(* Every Rust method is an operator from the value before the call to the  *)
(* value after it; the actions at the end apply them to the variables.     *)
(* Times are in milliseconds, deadlines (CoarseTime) in whole seconds.     *)
(***************************************************************************)
EXTENDS Integers, Sequences, FiniteSets, TLC

(***************************************************************************)
(* Program constants.                                                      *)
(***************************************************************************)
DEFAULT_QUEUE_CAPACITY == 500
REQUEST_LIFETIME == 300
NO_DEADLINE == 0
MAX_RESPONSE_COUNT_BYTES == 2097152
IC_00 == 0

(***************************************************************************)
(* Bounds of the model.                                                    *)
(***************************************************************************)
\* capacity the queues of specification Spec are created with
QueueCapacity == 2
\* messages the callers of specification Spec push in one behaviour
MaxPushes == 2
\* ingress messages enqueued at any one time
MaxIngress == 1
\* messages inserted into the pool in one behaviour of specification SpecPool
MaxPoolInserts == 3
\* messages the callers of specification SpecRecycle push in one behaviour
MaxRecyclePushes == 5
\* pushes the callers of specification SpecS1 make beyond the queue capacity
MaxS1Extra == 3
\* messages the callers of specification SpecSubnet push in one behaviour
MaxSubnetPushes == 3
\* messages the callers of specification SpecRoundRobin push in one behaviour
MaxRoundRobinPushes == 4

(***************************************************************************)
(* Generic helpers.                                                        *)
(***************************************************************************)
Max(a, b) == IF a >= b THEN a ELSE b

Min(a, b) == IF a <= b THEN a ELSE b

SaturatingSub(a, b) == IF a >= b THEN a - b ELSE 0

Remove(f, k) == [x \in (DOMAIN f) \ {k} |-> f[x]]

Put(f, k, v) == [x \in (DOMAIN f) \cup {k} |-> IF x = k THEN v ELSE f[x]]

Range(s) == {s[i] : i \in 1..Len(s)}

PushBack(s, e) == Append(s, e)

Front(s) == s[1]

PopFront(s) == Tail(s)

\* the elements of a set of integers in ascending order (BTreeMap iteration)
RECURSIVE SortedSeq(_)
SortedSeq(S) ==
    IF S = {} THEN <<>>
    ELSE LET m == CHOOSE x \in S : \A y \in S : x <= y
         IN  <<m>> \o SortedSeq(S \ {m})

\* CoarseTime::floor: whole seconds of a time in milliseconds
CoarseTimeFloor(t) == t \div 1000

(***************************************************************************)
(* Messages.  A Request has sender, receiver, sender_reply_callback; a     *)
(* Response has respondent (sender), originator (receiver) and             *)
(* originator_reply_callback; both have a deadline and a byte size.        *)
(***************************************************************************)
\* the cycles every call of the model carries (Request::payment)
RequestPayment == 3

Request(sender, receiver, callback, deadline, size_bytes) ==
    [kind |-> "Request", sender |-> sender, receiver |-> receiver,
     callback |-> callback, deadline |-> deadline, size_bytes |-> size_bytes,
     payload |-> "Data", payment |-> RequestPayment]

Response(respondent, originator, callback, deadline, size_bytes, payload) ==
    [kind |-> "Response", sender |-> respondent, receiver |-> originator,
     callback |-> callback, deadline |-> deadline, size_bytes |-> size_bytes,
     payload |-> payload, refund |-> 0]

NoMessage == [kind |-> "None"]

IsBestEffort(msg) == msg.deadline /= NO_DEADLINE

(***************************************************************************)
(* MessageId: three flag bits and the generator above them.                *)
(***************************************************************************)
KindBit(kind) == IF kind = "Request" THEN 0 ELSE 1

ContextBit(context) == IF context = "Inbound" THEN 0 ELSE 2

ClassBit(class) == IF class = "GuaranteedResponse" THEN 0 ELSE 4

KindOf(msg) == msg.kind

ClassOf(msg) == IF msg.deadline = NO_DEADLINE THEN "GuaranteedResponse" ELSE "BestEffort"

MessageIdNew(kind, context, class, generator) ==
    KindBit(kind) + ContextBit(context) + ClassBit(class) + generator * 8

IdKind(id) == IF id % 2 = 0 THEN "Request" ELSE "Response"

IdContext(id) == IF (id \div 2) % 2 = 0 THEN "Inbound" ELSE "Outbound"

IdClass(id) == IF (id \div 4) % 2 = 0 THEN "GuaranteedResponse" ELSE "BestEffort"

NoId == -1

(***************************************************************************)
(* MessageStats.                                                           *)
(***************************************************************************)
MessageStatsDefault ==
    [size_bytes |-> 0, best_effort_message_bytes |-> 0,
     guaranteed_responses_size_bytes |-> 0,
     oversized_guaranteed_requests_extra_bytes |-> 0,
     inbound_size_bytes |-> 0, inbound_message_count |-> 0,
     inbound_response_count |-> 0, inbound_guaranteed_request_count |-> 0,
     inbound_guaranteed_response_count |-> 0, outbound_message_count |-> 0]

request_stats_delta(req, context) ==
    LET guaranteed == req.deadline = NO_DEADLINE
        inbound == context = "Inbound"
    IN  [size_bytes |-> req.size_bytes,
         best_effort_message_bytes |-> IF guaranteed THEN 0 ELSE req.size_bytes,
         guaranteed_responses_size_bytes |-> 0,
         oversized_guaranteed_requests_extra_bytes |->
             IF guaranteed THEN SaturatingSub(req.size_bytes, MAX_RESPONSE_COUNT_BYTES) ELSE 0,
         inbound_size_bytes |-> IF inbound THEN req.size_bytes ELSE 0,
         inbound_message_count |-> IF inbound THEN 1 ELSE 0,
         inbound_response_count |-> 0,
         inbound_guaranteed_request_count |-> IF inbound /\ guaranteed THEN 1 ELSE 0,
         inbound_guaranteed_response_count |-> 0,
         outbound_message_count |-> IF inbound THEN 0 ELSE 1]

response_stats_delta(rep, context) ==
    LET guaranteed == rep.deadline = NO_DEADLINE
        inbound == context = "Inbound"
    IN  [size_bytes |-> rep.size_bytes,
         best_effort_message_bytes |-> IF guaranteed THEN 0 ELSE rep.size_bytes,
         guaranteed_responses_size_bytes |-> IF guaranteed THEN rep.size_bytes ELSE 0,
         oversized_guaranteed_requests_extra_bytes |-> 0,
         inbound_size_bytes |-> IF inbound THEN rep.size_bytes ELSE 0,
         inbound_message_count |-> IF inbound THEN 1 ELSE 0,
         inbound_response_count |-> IF inbound THEN 1 ELSE 0,
         inbound_guaranteed_request_count |-> 0,
         inbound_guaranteed_response_count |-> IF inbound /\ guaranteed THEN 1 ELSE 0,
         outbound_message_count |-> IF inbound THEN 0 ELSE 1]

stats_delta(msg, context) ==
    IF msg.kind = "Request" THEN request_stats_delta(msg, context)
    ELSE response_stats_delta(msg, context)

StatsAdd(a, b) == [f \in DOMAIN a |-> a[f] + b[f]]

StatsSub(a, b) == [f \in DOMAIN a |-> a[f] - b[f]]

(***************************************************************************)
(* MessagePool.  The two BinaryHeaps are sets of pairs: an id is pushed    *)
(* onto a heap at most once between two resets of the generator.           *)
(***************************************************************************)
MessagePoolDefault ==
    [messages |-> <<>>, message_stats |-> MessageStatsDefault,
     deadline_queue |-> {}, size_queue |-> {}, message_id_generator |-> 0]

PoolLen(pool) == Cardinality(DOMAIN pool.messages)

PoolGet(pool, id) ==
    IF id \in DOMAIN pool.messages THEN pool.messages[id] ELSE NoMessage

PoolHas(pool, id) == id \in DOMAIN pool.messages

\* head of the deadline heap: earliest deadline, largest id among equals
DeadlinePeek(dq) ==
    CHOOSE e \in dq : \A o \in dq :
        e[1] < o[1] \/ (e[1] = o[1] /\ e[2] >= o[2])

\* a faulty head of the size heap: the smallest size
SizePeekSmallest(sq) ==
    CHOOSE e \in sq : \A o \in sq :
        e[1] < o[1] \/ (e[1] = o[1] /\ e[2] >= o[2])

\* head of the size heap: largest size, largest id among equals
SizePeek(sq) ==
    CHOOSE e \in sq : \A o \in sq :
        e[1] > o[1] \/ (e[1] = o[1] /\ e[2] >= o[2])

\* a faulty maybe_trim_queues that resets the empty pool and prunes nothing
maybe_trim_queues_reset_only(pool) ==
    IF PoolLen(pool) = 0 THEN MessagePoolDefault ELSE pool

maybe_trim_queues(pool) ==
    LET len == PoolLen(pool)
    IN  IF len = 0 THEN MessagePoolDefault
        ELSE [pool EXCEPT
                !.deadline_queue =
                    IF Cardinality(@) > 2 * len + 2
                    THEN {e \in @ : e[2] \in DOMAIN pool.messages} ELSE @,
                !.size_queue =
                    IF Cardinality(@) > 2 * len + 2
                    THEN {e \in @ : e[2] \in DOMAIN pool.messages} ELSE @]

\* take: [pool, msg]; msg is NoMessage when the id is not in the pool
PoolTake(pool, id) ==
    LET Removed(msg) ==
            [pool |-> maybe_trim_queues(
                          [pool EXCEPT
                              !.messages = Remove(@, id),
                              !.message_stats =
                                  StatsSub(@, stats_delta(msg, IdContext(id)))]),
             msg |-> msg]
    IN  IF ~PoolHas(pool, id) THEN [pool |-> pool, msg |-> NoMessage]
        ELSE Removed(pool.messages[id])

next_message_id(pool, kind, context, class) ==
    MessageIdNew(kind, context, class, pool.message_id_generator)

\* a faulty insert_impl, one that records every message in the size heap
insert_impl_all_in_size_queue(pool, msg, deadline, context) ==
    LET Inserted(id) ==
            [id |-> id,
             panic |-> id \in DOMAIN pool.messages,
             pool |-> [pool EXCEPT
                         !.message_id_generator = @ + 1,
                         !.message_stats = StatsAdd(@, stats_delta(msg, context)),
                         !.messages = Put(@, id, msg),
                         !.deadline_queue =
                             IF deadline /= NO_DEADLINE THEN @ \cup {<<deadline, id>>}
                             ELSE @,
                         !.size_queue = @ \cup {<<msg.size_bytes, id>>}]]
    IN  Inserted(next_message_id(pool, KindOf(msg), context, ClassOf(msg)))

\* insert_impl: [pool, id, panic]
insert_impl(pool, msg, deadline, context) ==
    LET Inserted(id) ==
            [id |-> id,
             panic |-> id \in DOMAIN pool.messages,
             pool |-> [pool EXCEPT
                         !.message_id_generator = @ + 1,
                         !.message_stats = StatsAdd(@, stats_delta(msg, context)),
                         !.messages = Put(@, id, msg),
                         !.deadline_queue =
                             IF deadline /= NO_DEADLINE THEN @ \cup {<<deadline, id>>}
                             ELSE @,
                         !.size_queue =
                             IF IsBestEffort(msg) THEN @ \cup {<<msg.size_bytes, id>>}
                             ELSE @]]
    IN  Inserted(next_message_id(pool, KindOf(msg), context, ClassOf(msg)))

\* a faulty insert_inbound that records the deadline of a response too
insert_inbound_with_deadline(pool, msg) ==
    insert_impl(pool, msg, msg.deadline, "Inbound")

insert_inbound(pool, msg) ==
    insert_impl(pool, msg,
                IF msg.kind = "Request" THEN msg.deadline ELSE NO_DEADLINE,
                "Inbound")

\* a faulty insert_outbound_request that records the deadline of the request itself
insert_outbound_request_own_deadline(pool, request, now) ==
    insert_impl(pool, request, request.deadline, "Outbound")

insert_outbound_request(pool, request, now) ==
    insert_impl(pool, request,
                IF request.deadline = NO_DEADLINE
                THEN CoarseTimeFloor(now + REQUEST_LIFETIME * 1000)
                ELSE request.deadline,
                "Outbound")

insert_outbound_response(pool, response) ==
    insert_impl(pool, response, response.deadline, "Outbound")

has_expired_deadlines(pool, now) ==
    /\ pool.deadline_queue /= {}
    /\ DeadlinePeek(pool.deadline_queue)[1] < CoarseTimeFloor(now)

\* a faulty expire loop, one that stops at an entry whose message is gone
RECURSIVE expire_loop_until_stale(_, _, _)
expire_loop_until_stale(pool, now, expired) ==
    LET Taken(head, taken) ==
            expire_loop_until_stale(taken.pool, now,
                                    Append(expired, <<head[2], taken.msg>>))
        Peeked(head) ==
            IF head[1] >= now \/ ~PoolHas(pool, head[2])
            THEN [pool |-> pool, expired |-> expired]
            ELSE Taken(head, PoolTake([pool EXCEPT !.deadline_queue = @ \ {head}],
                                      head[2]))
    IN  IF pool.deadline_queue = {} THEN [pool |-> pool, expired |-> expired]
        ELSE Peeked(DeadlinePeek(pool.deadline_queue))

\* a faulty expire loop, one that also takes the messages whose deadline is now
RECURSIVE expire_loop_inclusive(_, _, _)
expire_loop_inclusive(pool, now, expired) ==
    LET Taken(head, taken) ==
            expire_loop_inclusive(taken.pool, now,
                                  IF taken.msg = NoMessage THEN expired
                                  ELSE Append(expired, <<head[2], taken.msg>>))
        Peeked(head) ==
            IF head[1] > now THEN [pool |-> pool, expired |-> expired]
            ELSE Taken(head, PoolTake([pool EXCEPT !.deadline_queue = @ \ {head}],
                                      head[2]))
    IN  IF pool.deadline_queue = {} THEN [pool |-> pool, expired |-> expired]
        ELSE Peeked(DeadlinePeek(pool.deadline_queue))

\* expire_messages: [pool, expired], expired a sequence of <<id, msg>>
RECURSIVE expire_loop(_, _, _)
expire_loop(pool, now, expired) ==
    LET Taken(head, taken) ==
            expire_loop(taken.pool, now,
                        IF taken.msg = NoMessage THEN expired
                        ELSE Append(expired, <<head[2], taken.msg>>))
        Peeked(head) ==
            IF head[1] >= now THEN [pool |-> pool, expired |-> expired]
            ELSE Taken(head, PoolTake([pool EXCEPT !.deadline_queue = @ \ {head}],
                                      head[2]))
    IN  IF pool.deadline_queue = {} THEN [pool |-> pool, expired |-> expired]
        ELSE Peeked(DeadlinePeek(pool.deadline_queue))

expire_messages(pool, now) == expire_loop(pool, CoarseTimeFloor(now), <<>>)

\* shed_largest_message: [pool, id, msg]; id is NoId when nothing was shed
RECURSIVE pool_shed_largest_message(_)
pool_shed_largest_message(pool) ==
    LET Taken(head, taken) ==
            IF taken.msg /= NoMessage
            THEN [pool |-> taken.pool, id |-> head[2], msg |-> taken.msg]
            ELSE pool_shed_largest_message(taken.pool)
        Popped(head) ==
            Taken(head, PoolTake([pool EXCEPT !.size_queue = @ \ {head}], head[2]))
    IN  IF pool.size_queue = {} THEN [pool |-> pool, id |-> NoId, msg |-> NoMessage]
        ELSE Popped(SizePeek(pool.size_queue))

(***************************************************************************)
(* CanisterQueue: a FIFO of references into the pool plus reserved         *)
(* response slots.  Requests and responses each have `capacity` slots; a   *)
(* (possibly stale) reference holds its slot until it is popped.           *)
(***************************************************************************)
CanisterQueueNew(capacity) ==
    [queue |-> <<>>, capacity |-> capacity, reserved_slots |-> 0]

QueueLen(q) == Len(q.queue)

EnqueuedRequests(q) == Cardinality({i \in 1..Len(q.queue) : IdKind(q.queue[i]) = "Request"})

EnqueuedResponses(q) == Cardinality({i \in 1..Len(q.queue) : IdKind(q.queue[i]) = "Response"})

available_request_slots(q) == q.capacity - EnqueuedRequests(q)

available_response_slots(q) == q.capacity - q.reserved_slots - EnqueuedResponses(q)

check_has_request_slot(q) == EnqueuedRequests(q) < q.capacity

can_reserve_response_slot(q) == q.reserved_slots + EnqueuedResponses(q) < q.capacity

try_reserve_response_slot(q) == [q EXCEPT !.reserved_slots = @ + 1]

release_reserved_response_slot(q) == [q EXCEPT !.reserved_slots = SaturatingSub(@, 1)]

check_has_reserved_response_slot(q) == q.reserved_slots > 0

queue_push_request(q, id) == [q EXCEPT !.queue = Append(@, id)]

queue_push_response(q, id) ==
    [q EXCEPT !.queue = Append(@, id), !.reserved_slots = SaturatingSub(@, 1)]

QueuePeek(q) == IF q.queue = <<>> THEN NoId ELSE Head(q.queue)

QueuePop(q) == [q EXCEPT !.queue = Tail(@)]

\* a faulty has_used_slots that looks at the enqueued items only
has_used_slots_items_only(q) == Len(q.queue) > 0

has_used_slots(q) == Len(q.queue) > 0 \/ q.reserved_slots > 0

\* pop_while(|item| pool.get(item.id()).is_none())
RECURSIVE PopWhileStale(_, _)
PopWhileStale(items, pool) ==
    IF items = <<>> \/ PoolHas(pool, Head(items)) THEN items
    ELSE PopWhileStale(Tail(items), pool)

queue_pop_while_stale(q, pool) == [q EXCEPT !.queue = PopWhileStale(@, pool)]

(***************************************************************************)
(* IngressQueue: FIFO of ingress messages, each named by its user.         *)
(***************************************************************************)
IngressQueueDefault == <<>>

ingress_push(iq, user) == Append(iq, user)

ingress_is_empty(iq) == iq = <<>>

(***************************************************************************)
(* QueueStats.                                                             *)
(***************************************************************************)
QueueStatsDefault ==
    [guaranteed_response_memory_reservations |-> 0,
     input_queues_reserved_slots |-> 0,
     output_queues_reserved_slots |-> 0,
     transient_stream_guaranteed_responses_size_bytes |-> 0]

on_push_request(stats, request, context) ==
    LET reserved == IF request.deadline = NO_DEADLINE
                    THEN [stats EXCEPT !.guaranteed_response_memory_reservations = @ + 1]
                    ELSE stats
    IN  IF context = "Outbound"
        THEN [reserved EXCEPT !.input_queues_reserved_slots = @ + 1]
        ELSE [reserved EXCEPT !.output_queues_reserved_slots = @ + 1]

on_push_response(stats, response, context) ==
    LET consumed == IF response.deadline = NO_DEADLINE
                    THEN [stats EXCEPT !.guaranteed_response_memory_reservations =
                                           SaturatingSub(@, 1)]
                    ELSE stats
    IN  IF context = "Inbound"
        THEN [consumed EXCEPT !.input_queues_reserved_slots = SaturatingSub(@, 1)]
        ELSE [consumed EXCEPT !.output_queues_reserved_slots = SaturatingSub(@, 1)]

on_push(stats, msg, context) ==
    IF msg.kind = "Request" THEN on_push_request(stats, msg, context)
    ELSE on_push_response(stats, msg, context)

\* a faulty on_drop_input_request, one that forgets the slot of the dropped request
on_drop_input_request_keeping_slot(stats, request) == stats

on_drop_input_request(stats, request) ==
    [stats EXCEPT !.output_queues_reserved_slots = SaturatingSub(@, 1)]

(***************************************************************************)
(* CanisterQueues.  `panicked` names the assertion that aborted the        *)
(* process ("" while it runs); the h_ fields are history: requests         *)
(* accepted per peer and still owed a response.                            *)
(***************************************************************************)
CanisterQueuesDefault(capacity) ==
    [ingress_queue |-> IngressQueueDefault,
     canister_queues |-> <<>>,
     pool |-> MessagePoolDefault,
     queue_stats |-> QueueStatsDefault,
     local_subnet_input_schedule |-> <<>>,
     remote_subnet_input_schedule |-> <<>>,
     input_schedule_canisters |-> {},
     next_input_queue |-> "LocalSubnet",
     callbacks_with_enqueued_response |-> {},
     default_queue_capacity |-> capacity,
     panicked |-> ""]

Panic(s, what) == [s EXCEPT !.panicked = what]

InputQueue(s, canister) == s.canister_queues[canister][1]

OutputQueue(s, canister) == s.canister_queues[canister][2]

SetInputQueue(s, canister, q) == [s EXCEPT !.canister_queues[canister][1] = q]

SetOutputQueue(s, canister, q) == [s EXCEPT !.canister_queues[canister][2] = q]

Schedule(s, input_queue_type) ==
    IF input_queue_type = "LocalSubnet" THEN s.local_subnet_input_schedule
    ELSE s.remote_subnet_input_schedule

SetSchedule(s, input_queue_type, schedule) ==
    IF input_queue_type = "LocalSubnet"
    THEN [s EXCEPT !.local_subnet_input_schedule = schedule]
    ELSE [s EXCEPT !.remote_subnet_input_schedule = schedule]

get_or_insert_queues(s, canister_id) ==
    IF canister_id \in DOMAIN s.canister_queues THEN s
    ELSE [s EXCEPT !.canister_queues =
                       Put(@, canister_id,
                           <<CanisterQueueNew(s.default_queue_capacity),
                             CanisterQueueNew(s.default_queue_capacity)>>)]

\* the tail of push_input: stats, pool, input queue and input schedule
push_input_enqueue(s, msg, input_queue_type) ==
    LET sender == msg.sender
        Scheduled(s1) ==
            IF QueueLen(InputQueue(s1, sender)) = 1
               /\ sender \notin s1.input_schedule_canisters
            THEN SetSchedule([s1 EXCEPT !.input_schedule_canisters = @ \cup {sender}],
                             input_queue_type,
                             PushBack(Schedule(s1, input_queue_type), sender))
            ELSE s1
        Inserted(inserted) ==
            IF inserted.panic THEN Panic(s, "insert: conflicting message id")
            ELSE Scheduled(
                     SetInputQueue(
                         [s EXCEPT !.queue_stats = on_push(@, msg, "Inbound"),
                                   !.pool = inserted.pool],
                         sender,
                         IF msg.kind = "Request"
                         THEN queue_push_request(InputQueue(s, sender), inserted.id)
                         ELSE queue_push_response(InputQueue(s, sender), inserted.id)))
    IN  Inserted(insert_inbound(s.pool, msg))

\* a faulty check that never looks at the output queue
input_request_slot_only(s1, sender) ==
    check_has_request_slot(InputQueue(s1, sender))

\* push_input of a request: the two checks made before anything is mutated
input_request_slots_available(s1, sender) ==
    /\ check_has_request_slot(InputQueue(s1, sender))
    /\ can_reserve_response_slot(OutputQueue(s1, sender))

\* a faulty check that ignores every duplicate response silently
duplicate_response_always_ignored(s, msg) ==
    [enqueue |-> FALSE, state |-> s, ret |-> "Ok"]

\* a faulty check that refuses every duplicate response
duplicate_response_always_rejected(s, msg) ==
    [enqueue |-> FALSE, state |-> s, ret |-> "NonMatchingResponse: Duplicate response"]

\* push_input of a response whose callback already has a response enqueued:
\* an error for a guaranteed response, silently ignored for a best-effort one
duplicate_response(s, msg) ==
    IF msg.deadline = NO_DEADLINE
    THEN [enqueue |-> FALSE, state |-> s,
          ret |-> "NonMatchingResponse: Duplicate response"]
    ELSE [enqueue |-> FALSE, state |-> s, ret |-> "Ok"]

\* push_input: [state, ret]
push_input(s, msg, input_queue_type) ==
    LET sender == msg.sender
        Request1(s1) ==
            IF ~input_request_slots_available(s1, sender)
            THEN [enqueue |-> FALSE, state |-> s1, ret |-> "QueueFull"]
            ELSE [enqueue |-> TRUE,
                  state |-> SetOutputQueue(s1, sender,
                                try_reserve_response_slot(OutputQueue(s1, sender))),
                  ret |-> "Ok"]
        Response1 ==
            IF sender \in DOMAIN s.canister_queues
               /\ check_has_reserved_response_slot(InputQueue(s, sender))
            THEN IF msg.callback \in s.callbacks_with_enqueued_response
                 THEN duplicate_response(s, msg)
                 ELSE [enqueue |-> TRUE,
                       state |-> [s EXCEPT !.callbacks_with_enqueued_response =
                                               @ \cup {msg.callback}],
                       ret |-> "Ok"]
            ELSE [enqueue |-> FALSE, state |-> s,
                  ret |-> "NonMatchingResponse: No reserved response slot"]
        Checked(checked) ==
            IF checked.enqueue
            THEN [state |-> push_input_enqueue(checked.state, msg, input_queue_type),
                  ret |-> "Ok"]
            ELSE [state |-> checked.state, ret |-> checked.ret]
    IN  Checked(IF msg.kind = "Request"
                THEN Request1(get_or_insert_queues(s, sender))
                ELSE Response1)

\* pop_and_advance: [queue, pool, msg, panic]
pop_and_advance(queue, pool) ==
    LET Taken(taken) ==
            [queue |-> queue_pop_while_stale(QueuePop(queue), pool),
             pool |-> taken.pool, msg |-> taken.msg, panic |-> taken.msg = NoMessage]
    IN  IF queue.queue = <<>>
        THEN [queue |-> queue, pool |-> pool, msg |-> NoMessage, panic |-> FALSE]
        ELSE Taken(PoolTake(pool, QueuePeek(queue)))

\* a faulty return that leaves the callback of the popped response recorded
return_popped_keeping_callback(s, s3, msg) == [state |-> s3, msg |-> msg]

\* pop_canister_input, the return of a popped message: the callback of a
\* popped response is no longer one with an enqueued response
return_popped(s, s3, msg) ==
    IF msg.kind = "Response"
    THEN IF msg.callback \notin s3.callbacks_with_enqueued_response
         THEN [state |-> Panic(s, "pop_canister_input: callback not recorded"),
               msg |-> NoMessage]
         ELSE [state |-> [s3 EXCEPT !.callbacks_with_enqueued_response =
                                        @ \ {msg.callback}],
               msg |-> msg]
    ELSE [state |-> s3, msg |-> msg]

\* a faulty rescheduling that puts the sender back at the front
reschedule_at_front(s2, input_queue_type, sender) ==
    SetSchedule(s2, input_queue_type, <<sender>> \o Schedule(s2, input_queue_type))

\* pop_canister_input: a sender whose input queue is not empty after the pop
\* goes to the back of the input schedule
reschedule(s2, input_queue_type, sender) ==
    SetSchedule(s2, input_queue_type, PushBack(Schedule(s2, input_queue_type), sender))

\* pop_canister_input: [state, msg]
RECURSIVE pop_canister_input(_, _)
pop_canister_input(s, input_queue_type) ==
    LET sender == Front(Schedule(s, input_queue_type))
        \* an empty queue yields no message: the loop goes on to the next sender
        Returned(s3, msg) ==
            IF msg = NoMessage THEN pop_canister_input(s3, input_queue_type)
            ELSE return_popped(s, s3, msg)
        Rescheduled(s2, popped) ==
            IF popped.panic
            THEN [state |-> Panic(s, "stale reference at the head of queue"),
                  msg |-> NoMessage]
            ELSE IF QueueLen(popped.queue) /= 0
            THEN Returned(reschedule(s2, input_queue_type, sender), popped.msg)
            ELSE IF sender \notin s2.input_schedule_canisters
            THEN [state |-> Panic(s, "pop_canister_input: sender not scheduled"),
                  msg |-> NoMessage]
            ELSE Returned([s2 EXCEPT !.input_schedule_canisters = @ \ {sender}],
                          popped.msg)
        Popped(s1, popped) ==
            Rescheduled(SetInputQueue([s1 EXCEPT !.pool = popped.pool], sender,
                                      popped.queue),
                        popped)
        Scheduled(s1) ==
            IF sender \notin DOMAIN s1.canister_queues
            THEN IF sender \notin s1.input_schedule_canisters
                 THEN [state |-> Panic(s, "pop_canister_input: sender not scheduled"),
                       msg |-> NoMessage]
                 ELSE pop_canister_input(
                          [s1 EXCEPT !.input_schedule_canisters = @ \ {sender}],
                          input_queue_type)
            ELSE Popped(s1, pop_and_advance(InputQueue(s1, sender), s1.pool))
    IN  IF Schedule(s, input_queue_type) = <<>> THEN [state |-> s, msg |-> NoMessage]
        ELSE Scheduled(SetSchedule(s, input_queue_type,
                                   PopFront(Schedule(s, input_queue_type))))

\* peek_canister_input: [state, msg]
RECURSIVE peek_canister_input(_, _)
peek_canister_input(s, input_queue_type) ==
    LET sender == Front(Schedule(s, input_queue_type))
        Peeked(item) ==
            IF item /= NoId
            THEN IF ~PoolHas(s.pool, item)
                 THEN [state |-> Panic(s, "stale reference at the head of input queue"),
                       msg |-> NoMessage]
                 ELSE [state |-> s, msg |-> PoolGet(s.pool, item)]
            ELSE peek_canister_input(
                     SetSchedule(s, input_queue_type,
                                 PopFront(Schedule(s, input_queue_type))),
                     input_queue_type)
    IN  IF Schedule(s, input_queue_type) = <<>> THEN [state |-> s, msg |-> NoMessage]
        ELSE IF sender \notin DOMAIN s.canister_queues
        THEN IF sender \notin s.input_schedule_canisters
             THEN [state |-> Panic(s, "peek_canister_input: sender not scheduled"),
                   msg |-> NoMessage]
             ELSE peek_canister_input(
                      SetSchedule([s EXCEPT !.input_schedule_canisters = @ \ {sender}],
                                  input_queue_type,
                                  PopFront(Schedule(s, input_queue_type))),
                      input_queue_type)
        ELSE Peeked(QueuePeek(InputQueue(s, sender)))

\* skip_canister_input
skip_canister_input(s, input_queue_type) ==
    IF Schedule(s, input_queue_type) = <<>> THEN s
    ELSE
    LET sender == Front(Schedule(s, input_queue_type))
        s1 == SetSchedule(s, input_queue_type, PopFront(Schedule(s, input_queue_type)))
    IN  IF sender \notin DOMAIN s.canister_queues
        THEN Panic(s, "skip_canister_input: unwrap of a missing queue pair")
        ELSE IF QueueLen(InputQueue(s, sender)) /= 0
        THEN SetSchedule(s1, input_queue_type,
                         PushBack(Schedule(s1, input_queue_type), sender))
        ELSE IF sender \notin s1.input_schedule_canisters
        THEN Panic(s, "skip_canister_input: sender not scheduled")
        ELSE [s1 EXCEPT !.input_schedule_canisters = @ \ {sender}]

has_input(s) ==
    ~ingress_is_empty(s.ingress_queue) \/ s.pool.message_stats.inbound_message_count > 0

has_output(s) == s.pool.message_stats.outbound_message_count > 0

\* a faulty rotation, in the opposite order
NextInputQueueBefore(next_input_queue) ==
    CASE next_input_queue = "LocalSubnet" -> "RemoteSubnet"
      [] next_input_queue = "RemoteSubnet" -> "Ingress"
      [] next_input_queue = "Ingress" -> "LocalSubnet"

NextInputQueueAfter(next_input_queue) ==
    CASE next_input_queue = "LocalSubnet" -> "Ingress"
      [] next_input_queue = "Ingress" -> "RemoteSubnet"
      [] next_input_queue = "RemoteSubnet" -> "LocalSubnet"

IngressMessage(user) == [kind |-> "Ingress", user |-> user]

\* a faulty peek_input that stays with the source that yielded nothing
try_same_input_queue(s) == s

\* peek_input: the source yielded nothing, the cursor moves to the next one
try_another_input_queue(s) ==
    [s EXCEPT !.next_input_queue = NextInputQueueAfter(@)]

\* peek_input: [state, msg]; `tries` counts the sources still to try
RECURSIVE peek_input_loop(_, _)
peek_input_loop(s, tries) ==
    LET Peeked(next_input) ==
            IF next_input.msg /= NoMessage \/ next_input.state.panicked /= ""
            THEN next_input
            ELSE peek_input_loop(try_another_input_queue(next_input.state), tries - 1)
    IN  IF tries = 0 \/ s.panicked /= "" THEN [state |-> s, msg |-> NoMessage]
        ELSE Peeked(IF s.next_input_queue = "Ingress"
                    THEN [state |-> s,
                          msg |-> IF ingress_is_empty(s.ingress_queue) THEN NoMessage
                                  ELSE IngressMessage(Head(s.ingress_queue))]
                    ELSE peek_canister_input(s, s.next_input_queue))

peek_input(s) == peek_input_loop(s, 3)

\* pop_input: [state, msg]
RECURSIVE pop_input_loop(_, _)
pop_input_loop(s, tries) ==
    LET Popped(next_input) ==
            IF next_input.msg /= NoMessage \/ next_input.state.panicked /= ""
            THEN next_input
            ELSE pop_input_loop(next_input.state, tries - 1)
        Advanced(s1) ==
            Popped(IF s.next_input_queue = "Ingress"
                   THEN IF ingress_is_empty(s1.ingress_queue)
                        THEN [state |-> s1, msg |-> NoMessage]
                        ELSE [state |-> [s1 EXCEPT !.ingress_queue = Tail(@)],
                              msg |-> IngressMessage(Head(s1.ingress_queue))]
                   ELSE pop_canister_input(s1, s.next_input_queue))
    IN  IF tries = 0 \/ s.panicked /= "" THEN [state |-> s, msg |-> NoMessage]
        ELSE Advanced([s EXCEPT !.next_input_queue = NextInputQueueAfter(@)])

pop_input(s) == pop_input_loop(s, 3)

\* skip_input (the loop detector is the caller's)
skip_input(s) ==
    LET Skipped(skipped) ==
            IF skipped.panicked /= "" THEN skipped
            ELSE [skipped EXCEPT !.next_input_queue =
                     CASE @ = "Ingress" -> "RemoteSubnet"
                       [] @ = "RemoteSubnet" -> "LocalSubnet"
                       [] @ = "LocalSubnet" -> "Ingress"]
    IN  Skipped(IF s.next_input_queue = "Ingress" THEN s
                ELSE skip_canister_input(s, s.next_input_queue))

\* IngressQueue::ingress_schedule_size: the users with a queued message
ingress_schedule_size(iq) == Cardinality(Range(iq))

\* CanisterQueuesLoopDetector::default()
CanisterQueuesLoopDetectorDefault ==
    [local_queue_skip_count |-> 0, remote_queue_skip_count |-> 0,
     ingress_queue_skip_count |-> 0]

\* a faulty detector that looks at the remote schedule and the ingress queue only
detected_loop_without_local(loop_detector, s) ==
    /\ loop_detector.remote_queue_skip_count >= Len(s.remote_subnet_input_schedule)
    /\ loop_detector.ingress_queue_skip_count >= ingress_schedule_size(s.ingress_queue)

\* CanisterQueuesLoopDetector::detected_loop
detected_loop(loop_detector, s) ==
    LET skipped_all_remote ==
            loop_detector.remote_queue_skip_count >= Len(s.remote_subnet_input_schedule)
        skipped_all_local ==
            loop_detector.local_queue_skip_count >= Len(s.local_subnet_input_schedule)
        skipped_all_ingress ==
            loop_detector.ingress_queue_skip_count >= ingress_schedule_size(s.ingress_queue)
    IN  skipped_all_remote /\ skipped_all_local /\ skipped_all_ingress

\* skip_input: what it does to the caller's loop detector
skip_input_count(loop_detector, current_input_queue) ==
    CASE current_input_queue = "Ingress" ->
             [loop_detector EXCEPT !.ingress_queue_skip_count = @ + 1]
      [] current_input_queue = "RemoteSubnet" ->
             [loop_detector EXCEPT !.remote_queue_skip_count = @ + 1]
      [] current_input_queue = "LocalSubnet" ->
             [loop_detector EXCEPT !.local_queue_skip_count = @ + 1]

\* a faulty check that never looks at the input queue
output_request_slot_only(s1, receiver) ==
    check_has_request_slot(OutputQueue(s1, receiver))

\* a faulty check that lets every request through
output_request_unchecked(s1, receiver) == TRUE

\* push_output_request: the two checks made before anything is mutated
output_request_slots_available(s1, receiver) ==
    /\ check_has_request_slot(OutputQueue(s1, receiver))
    /\ can_reserve_response_slot(InputQueue(s1, receiver))

\* push_output_request: [state, ret]
push_output_request(s, request, time) ==
    LET receiver == request.receiver
        Inserted(s2, inserted) ==
            IF inserted.panic THEN Panic(s, "insert: conflicting message id")
            ELSE SetOutputQueue(
                     [s2 EXCEPT !.queue_stats = on_push_request(@, request, "Outbound"),
                                !.pool = inserted.pool],
                     receiver,
                     queue_push_request(OutputQueue(s2, receiver), inserted.id))
        Reserved(s2) ==
            Inserted(s2, insert_outbound_request(s2.pool, request, time))
        Checked(s1) ==
            IF ~output_request_slots_available(s1, receiver)
            THEN [state |-> s1, ret |-> "QueueFull"]
            ELSE [state |-> Reserved(
                                SetInputQueue(s1, receiver,
                                    try_reserve_response_slot(InputQueue(s1, receiver)))),
                  ret |-> "Ok"]
    IN  Checked(get_or_insert_queues(s, receiver))

\* a faulty count that looks at the output queues only
available_output_request_slots_output_only(s) ==
    [canister \in DOMAIN s.canister_queues |->
        available_request_slots(OutputQueue(s, canister))]

\* available_output_request_slots: per peer, the requests that can be pushed
available_output_request_slots(s) ==
    [canister \in DOMAIN s.canister_queues |->
        LET response_slots == available_response_slots(InputQueue(s, canister))
            request_slots == available_request_slots(OutputQueue(s, canister))
        IN  IF response_slots <= request_slots THEN response_slots ELSE request_slots]

\* reject_subnet_output_request: [state, ret]
reject_subnet_output_request(s, request, subnet_ids) ==
    LET receiver == request.receiver
        Checked(s1) ==
            IF ~can_reserve_response_slot(InputQueue(s1, receiver))
            THEN [state |-> s1, ret |-> "QueueFull"]
            ELSE push_input(
                     SetInputQueue(
                         [s1 EXCEPT !.queue_stats =
                                        on_push_request(@, request, "Outbound")],
                         receiver,
                         try_reserve_response_slot(InputQueue(s1, receiver))),
                     [Response(request.receiver, request.sender, request.callback,
                               request.deadline, 1, "Reject")
                         EXCEPT !.refund = request.payment],
                     "LocalSubnet")
    IN  IF ~(request.receiver = IC_00 \/ request.receiver \in subnet_ids)
        THEN [state |-> Panic(s, "reject_subnet_output_request: not a subnet request"),
              ret |-> "Panic"]
        ELSE Checked(get_or_insert_queues(s, receiver))

\* push_output_response
push_output_response(s, response) ==
    LET originator == response.receiver
        Inserted(s1, inserted) ==
            IF inserted.panic THEN Panic(s, "insert: conflicting message id")
            ELSE IF ~check_has_reserved_response_slot(OutputQueue(s1, originator))
            THEN Panic(s, "push_response: no reserved response slot")
            ELSE SetOutputQueue([s1 EXCEPT !.pool = inserted.pool], originator,
                     queue_push_response(OutputQueue(s1, originator), inserted.id))
        Counted(s1) == Inserted(s1, insert_outbound_response(s1.pool, response))
    IN  IF originator \notin DOMAIN s.canister_queues
        THEN Panic(s, "pushing response into inexistent output queue")
        ELSE Counted([s EXCEPT !.queue_stats = on_push_response(@, response, "Outbound")])

\* peek_output: the message at the head of the output queue, NoMessage if none
peek_output(s, canister_id) ==
    IF canister_id \notin DOMAIN s.canister_queues THEN NoMessage
    ELSE IF QueuePeek(OutputQueue(s, canister_id)) = NoId THEN NoMessage
    ELSE PoolGet(s.pool, QueuePeek(OutputQueue(s, canister_id)))

PeekOutputPanics(s, canister_id) ==
    /\ canister_id \in DOMAIN s.canister_queues
    /\ QueuePeek(OutputQueue(s, canister_id)) /= NoId
    /\ ~PoolHas(s.pool, QueuePeek(OutputQueue(s, canister_id)))

\* a faulty induct_message_to_self that leaves the message in the output queue
induct_message_to_self_without_pop(s, own_canister_id) ==
    LET Pushed(pushed) ==
            [state |-> pushed.state, ret |-> IF pushed.ret = "Ok" THEN "Ok" ELSE "Err"]
        Peeked(msg) ==
            IF msg = NoMessage THEN [state |-> s, ret |-> "Err"]
            ELSE Pushed(push_input(s, msg, "LocalSubnet"))
    IN  IF PeekOutputPanics(s, own_canister_id)
        THEN [state |-> Panic(s, "stale reference at the head of output queue"),
              ret |-> "Panic"]
        ELSE Peeked(peek_output(s, own_canister_id))

\* induct_message_to_self: [state, ret]
induct_message_to_self(s, own_canister_id) ==
    LET Popped(s1, popped) ==
            IF popped.panic \/ popped.msg = NoMessage
            THEN [state |-> Panic(s, "Message peeked above so pop should not fail."),
                  ret |-> "Panic"]
            ELSE [state |-> SetOutputQueue([s1 EXCEPT !.pool = popped.pool],
                                           own_canister_id, popped.queue),
                  ret |-> "Ok"]
        Pushed(pushed) ==
            IF pushed.state.panicked /= "" THEN [state |-> pushed.state, ret |-> "Panic"]
            ELSE IF pushed.ret /= "Ok" THEN [state |-> pushed.state, ret |-> "Err"]
            ELSE Popped(pushed.state,
                        pop_and_advance(OutputQueue(pushed.state, own_canister_id),
                                        pushed.state.pool))
        Peeked(msg) ==
            IF msg = NoMessage THEN [state |-> s, ret |-> "Err"]
            ELSE Pushed(push_input(s, msg, "LocalSubnet"))
    IN  IF PeekOutputPanics(s, own_canister_id)
        THEN [state |-> Panic(s, "stale reference at the head of output queue"),
              ret |-> "Panic"]
        ELSE Peeked(peek_output(s, own_canister_id))

\* garbage_collect
garbage_collect_impl(s) ==
    [s EXCEPT !.canister_queues =
        [c \in {c \in DOMAIN @ : has_used_slots(@[c][1]) \/ has_used_slots(@[c][2])}
            |-> @[c]]]

garbage_collect(s) ==
    LET Collected(s1) ==
            IF DOMAIN s1.canister_queues = {} /\ ingress_is_empty(s1.ingress_queue)
            THEN IF PoolLen(s1.pool) /= 0 THEN Panic(s, "garbage_collect: pool not empty")
                 ELSE [s1 EXCEPT !.next_input_queue = "LocalSubnet",
                                 !.pool = MessagePoolDefault]
            ELSE s1
    IN  Collected(garbage_collect_impl(s))

\* generate_timeout_response
generate_timeout_response(request) ==
    [Response(request.receiver, request.sender, request.callback, request.deadline,
              1, "Reject: Request timed out.")
        EXCEPT !.refund = request.payment]

\* on_message_dropped
on_message_dropped(s, id, msg, own_canister_id, local_canisters) ==
    LET context == IdContext(id)
        remote == IF context = "Inbound" THEN msg.sender ELSE msg.receiver
        Scheduled(s2) ==
            IF QueueLen(InputQueue(s2, remote)) = 1
               /\ remote \notin s2.input_schedule_canisters
            THEN LET input_queue_type ==
                         IF remote = own_canister_id \/ remote \in local_canisters
                         THEN "LocalSubnet" ELSE "RemoteSubnet"
                 IN  SetSchedule(
                         [s2 EXCEPT !.input_schedule_canisters = @ \cup {remote}],
                         input_queue_type,
                         PushBack(Schedule(s2, input_queue_type), remote))
            ELSE s2
        Inserted(s1, response, inserted) ==
            IF response.callback \in s1.callbacks_with_enqueued_response
            THEN Panic(s, "on_message_dropped: callback already has a response")
            ELSE IF inserted.panic THEN Panic(s, "insert: conflicting message id")
            ELSE IF ~check_has_reserved_response_slot(InputQueue(s1, remote))
            THEN Panic(s, "push_response: no reserved response slot")
            ELSE Scheduled(
                     SetInputQueue(
                         [s1 EXCEPT
                             !.queue_stats = on_push_response(@, response, "Inbound"),
                             !.callbacks_with_enqueued_response =
                                 @ \cup {response.callback},
                             !.pool = inserted.pool],
                         remote,
                         queue_push_response(InputQueue(s1, remote), inserted.id)))
        TimedOut(s1, response) ==
            Inserted(s1, response, insert_inbound(s1.pool, response))
        Advanced(s1) ==
            CASE context = "Inbound" /\ msg.kind = "Request" ->
                    SetOutputQueue(
                        [s1 EXCEPT !.queue_stats = on_drop_input_request(@, msg)],
                        remote, release_reserved_response_slot(OutputQueue(s1, remote)))
              [] context = "Outbound" /\ msg.kind = "Request" ->
                    TimedOut(s1, generate_timeout_response(msg))
              [] context = "Inbound" /\ msg.kind = "Response" ->
                    IF msg.callback \notin s1.callbacks_with_enqueued_response
                    THEN Panic(s, "on_message_dropped: callback not recorded")
                    ELSE [s1 EXCEPT !.callbacks_with_enqueued_response =
                                        @ \ {msg.callback}]
              [] OTHER -> s1
        Queue(queue) ==
            Advanced(
                IF QueuePeek(queue) /= id THEN s
                ELSE IF context = "Inbound"
                THEN SetInputQueue(s, remote,
                                   queue_pop_while_stale(QueuePop(queue), s.pool))
                ELSE SetOutputQueue(s, remote,
                                    queue_pop_while_stale(QueuePop(queue), s.pool)))
    IN  IF s.panicked /= "" THEN s
        ELSE IF remote \notin DOMAIN s.canister_queues
        THEN Panic(s, "on_message_dropped: unwrap of a missing queue pair")
        ELSE Queue(IF context = "Inbound" THEN InputQueue(s, remote)
                   ELSE OutputQueue(s, remote))

RECURSIVE drop_all(_, _, _, _)
drop_all(s, dropped, own_canister_id, local_canisters) ==
    IF dropped = <<>> THEN s
    ELSE drop_all(on_message_dropped(s, Head(dropped)[1], Head(dropped)[2],
                                     own_canister_id, local_canisters),
                  Tail(dropped), own_canister_id, local_canisters)

\* time_out_messages: [state, ret]
time_out_messages(s, current_time, own_canister_id, local_canisters) ==
    LET Expired(expired) ==
            [state |-> drop_all([s EXCEPT !.pool = expired.pool], expired.expired,
                                own_canister_id, local_canisters),
             ret |-> Len(expired.expired),
             dropped |-> expired.expired]
    IN  Expired(expire_messages(s.pool, current_time))

\* shed_largest_message: [state, ret]
shed_largest_message(s, own_canister_id, local_canisters) ==
    LET Shed(shed) ==
            IF shed.id = NoId
            THEN [state |-> [s EXCEPT !.pool = shed.pool], ret |-> FALSE,
                  dropped |-> <<>>]
            ELSE [state |-> on_message_dropped([s EXCEPT !.pool = shed.pool],
                                               shed.id, shed.msg,
                                               own_canister_id, local_canisters),
                  ret |-> TRUE,
                  dropped |-> << <<shed.id, shed.msg>> >>]
    IN  Shed(pool_shed_largest_message(s.pool))

\* a faulty loop that also pops the message f rejected
RECURSIVE for_each_queue_popping_rejected(_, _, _)
for_each_queue_popping_rejected(queue, pool, accept) ==
    IF queue.queue = <<>> THEN [queue |-> queue, pool |-> pool]
    ELSE IF ~PoolHas(pool, QueuePeek(queue))
    THEN for_each_queue_popping_rejected(QueuePop(queue), pool, accept)
    ELSE IF accept = 0
    THEN [queue |-> QueuePop(queue), pool |-> PoolTake(pool, QueuePeek(queue)).pool]
    ELSE for_each_queue_popping_rejected(QueuePop(queue),
                                         PoolTake(pool, QueuePeek(queue)).pool, accept - 1)

\* output_queues_for_each: f accepts the first accept[canister] messages of a queue
RECURSIVE for_each_queue(_, _, _)
for_each_queue(queue, pool, accept) ==
    IF queue.queue = <<>> THEN [queue |-> queue, pool |-> pool]
    ELSE IF ~PoolHas(pool, QueuePeek(queue))
    THEN for_each_queue(QueuePop(queue), pool, accept)
    ELSE IF accept = 0 THEN [queue |-> queue, pool |-> pool]
    ELSE for_each_queue(QueuePop(queue), PoolTake(pool, QueuePeek(queue)).pool, accept - 1)

RECURSIVE for_each_canister(_, _, _)
for_each_canister(s, canisters, accept) ==
    IF canisters = <<>> THEN s
    ELSE LET canister_id == Head(canisters)
             done == for_each_queue(OutputQueue(s, canister_id), s.pool, accept[canister_id])
         IN  for_each_canister(
                 SetOutputQueue([s EXCEPT !.pool = done.pool], canister_id, done.queue),
                 Tail(canisters), accept)

output_queues_for_each(s, accept) ==
    for_each_canister(s, SortedSeq(DOMAIN s.canister_queues), accept)

(***************************************************************************)
(* CanisterOutputQueuesIterator: the receivers whose output queue is still *)
(* to be visited, and the number of references left in those queues.  The  *)
(* iterator borrows the queues and the pool, so nothing else runs while it *)
(* exists.                                                                 *)
(***************************************************************************)
NoIterator == [active |-> FALSE, queues |-> <<>>, size |-> 0]

RECURSIVE compute_size(_, _)
compute_size(s, queues) ==
    IF queues = <<>> THEN 0
    ELSE QueueLen(OutputQueue(s, Head(queues))) + compute_size(s, Tail(queues))

output_into_iter(s) ==
    LET queues == SortedSeq({c \in DOMAIN s.canister_queues : QueueLen(OutputQueue(s, c)) > 0})
    IN  [active |-> TRUE, queues |-> queues, size |-> compute_size(s, queues)]

\* pop: [state, iter, msg]
iter_pop(s, it) ==
    LET receiver == Head(it.queues)
        Popped(queue, popped) ==
            IF popped.panic \/ popped.msg = NoMessage
            THEN [state |-> Panic(s, "stale reference at the head of queue"),
                  iter |-> it, msg |-> NoMessage]
            ELSE [state |-> SetOutputQueue([s EXCEPT !.pool = popped.pool], receiver,
                                           popped.queue),
                  iter |-> IF QueueLen(popped.queue) > 0
                           THEN [it EXCEPT
                                   !.queues = PushBack(Tail(@), receiver),
                                   !.size = @ - QueueLen(queue) + QueueLen(popped.queue)]
                           ELSE [it EXCEPT !.queues = Tail(@),
                                           !.size = @ - QueueLen(queue)],
                  msg |-> popped.msg]
    IN  IF it.queues = <<>> THEN [state |-> s, iter |-> it, msg |-> NoMessage]
        ELSE Popped(OutputQueue(s, receiver),
                    pop_and_advance(OutputQueue(s, receiver), s.pool))

\* a faulty exclude_queue that moves the queue to the back of the iteration
iter_exclude_queue_to_back(s, it) ==
    IF it.queues = <<>> THEN it
    ELSE [it EXCEPT !.queues = PushBack(Tail(@), Head(@))]

\* exclude_queue
iter_exclude_queue(s, it) ==
    IF it.queues = <<>> THEN it
    ELSE [it EXCEPT !.queues = Tail(@),
                    !.size = @ - QueueLen(OutputQueue(s, Head(it.queues)))]

(***************************************************************************)
(* Serialization: the conversion to the canonical record and back.         *)
(***************************************************************************)
\* BinaryHeap::into_sorted_vec of the deadline heap: ascending in
\* (Reverse(deadline), id), that is latest deadline first
RECURSIVE DeadlinesSortedVec(_)
DeadlinesSortedVec(dq) ==
    IF dq = {} THEN <<>>
    ELSE LET m == CHOOSE e \in dq : \A o \in dq :
                      e[1] > o[1] \/ (e[1] = o[1] /\ e[2] <= o[2])
         IN  <<[deadline_seconds |-> m[1], message_id |-> m[2]]>>
                 \o DeadlinesSortedVec(dq \ {m})

\* BinaryHeap::into_sorted_vec of the size heap: ascending in (size, id)
RECURSIVE SizesSortedVec(_)
SizesSortedVec(sq) ==
    IF sq = {} THEN <<>>
    ELSE LET m == CHOOSE e \in sq : \A o \in sq :
                      e[1] < o[1] \/ (e[1] = o[1] /\ e[2] <= o[2])
         IN  <<[size_bytes |-> m[1], message_id |-> m[2]]>>
                 \o SizesSortedVec(sq \ {m})

\* pb_queues::MessagePool from &MessagePool
pool_encode(pool) ==
    LET ids == SortedSeq(DOMAIN pool.messages)
    IN  [messages |-> [i \in 1..Len(ids) |->
                          [message_id |-> ids[i], message |-> pool.messages[ids[i]]]],
         message_deadlines |-> DeadlinesSortedVec(pool.deadline_queue),
         message_sizes |-> SizesSortedVec(pool.size_queue),
         message_id_generator |-> pool.message_id_generator]

\* pb_queues::MessagePool::default()
PbMessagePoolDefault ==
    [messages |-> <<>>, message_deadlines |-> <<>>, message_sizes |-> <<>>,
     message_id_generator |-> 0]

\* MessagePool::calculate_message_stats
RECURSIVE calculate_message_stats_of(_, _)
calculate_message_stats_of(messages, ids) ==
    IF ids = {} THEN MessageStatsDefault
    ELSE LET id == CHOOSE x \in ids : TRUE
         IN  StatsAdd(calculate_message_stats_of(messages, ids \ {id}),
                      stats_delta(messages[id], IdContext(id)))

calculate_message_stats(messages) ==
    calculate_message_stats_of(messages, DOMAIN messages)

\* the largest MessageId of the pool, 0 for none
MaxMessageId(messages) ==
    IF DOMAIN messages = {} THEN 0
    ELSE CHOOSE x \in DOMAIN messages : \A y \in DOMAIN messages : y <= x

\* MessagePool::check_invariants: "" for Ok, else the error
pool_check_invariants(pool) ==
    LET ids == DOMAIN pool.messages
        best_effort_messages == {id \in ids : IdClass(id) = "BestEffort"}
        messages_with_deadlines ==
            {id \in ids : \/ IdClass(id) = "BestEffort"
                          \/ id % 8 = 2}
    IN  IF \E id \in ids : IdKind(id) /= KindOf(pool.messages[id])
        THEN "Message kind mismatch"
        ELSE IF \E id \in ids : IdClass(id) /= ClassOf(pool.messages[id])
        THEN "Message class mismatch"
        ELSE IF MaxMessageId(pool.messages) \div 8 >= pool.message_id_generator
        THEN "MessageId out of bounds"
        ELSE IF \E e \in pool.deadline_queue :
                    IdClass(e[2]) = "GuaranteedResponse" /\ e[2] % 8 /= 2
        THEN "Unexpected MessageId in deadline queue"
        ELSE IF \E e \in pool.deadline_queue :
                    /\ IdClass(e[2]) = "BestEffort"
                    /\ e[2] \in messages_with_deadlines
                    /\ pool.messages[e[2]].deadline /= e[1]
        THEN "Deadline mismatch"
        ELSE IF messages_with_deadlines \ {e[2] : e \in pool.deadline_queue} /= {}
        THEN "Messages missing from deadline queue"
        ELSE IF \E e \in pool.size_queue : IdClass(e[2]) = "GuaranteedResponse"
        THEN "Guaranteed response message in load shedding queue"
        ELSE IF best_effort_messages \ {e[2] : e \in pool.size_queue} /= {}
        THEN "Best-effort messages missing from load shedding queue"
        ELSE ""

\* MessagePool from pb_queues::MessagePool: [ok, pool, err]
pool_decode(item) ==
    LET ids == {item.messages[i].message_id : i \in 1..Len(item.messages)}
        messages == [id \in ids |->
                        LET i == CHOOSE j \in 1..Len(item.messages) :
                                     /\ item.messages[j].message_id = id
                                     /\ \A k \in 1..Len(item.messages) :
                                            item.messages[k].message_id = id => k <= j
                        IN  item.messages[i].message]
        res == [messages |-> messages,
                message_stats |-> calculate_message_stats(messages),
                deadline_queue |->
                    {<<item.message_deadlines[i].deadline_seconds,
                       item.message_deadlines[i].message_id>> :
                        i \in 1..Len(item.message_deadlines)},
                size_queue |->
                    {<<item.message_sizes[i].size_bytes,
                       item.message_sizes[i].message_id>> :
                        i \in 1..Len(item.message_sizes)},
                message_id_generator |-> item.message_id_generator]
        Checked(err) ==
            [ok |-> err = "", pool |-> res, err |-> err]
    IN  IF Cardinality(ids) /= Len(item.messages)
        THEN [ok |-> FALSE, pool |-> res, err |-> "Duplicate MessageId"]
        ELSE Checked(pool_check_invariants(res))

\* pb_queues::CanisterQueue of a queue and back: capacity, reserved slots
\* and the references in queue order
queue_encode(q) ==
    [capacity |-> q.capacity, response_slots |-> q.reserved_slots,
     queue |-> [i \in 1..Len(q.queue) |-> [id |-> q.queue[i]]]]

queue_decode(item) ==
    [queue |-> [i \in 1..Len(item.queue) |-> item.queue[i].id],
     capacity |-> item.capacity, reserved_slots |-> item.response_slots]

\* pb_queues::CanisterQueues from &CanisterQueues
encode(s) ==
    LET peers == SortedSeq(DOMAIN s.canister_queues)
    IN  [ingress_queue |-> s.ingress_queue,
         canister_queues |->
             [i \in 1..Len(peers) |->
                 [canister_id |-> peers[i],
                  input_queue |-> queue_encode(InputQueue(s, peers[i])),
                  output_queue |-> queue_encode(OutputQueue(s, peers[i]))]],
         pool |-> IF s.pool /= MessagePoolDefault THEN <<pool_encode(s.pool)>> ELSE <<>>,
         next_input_queue |-> s.next_input_queue,
         local_subnet_input_schedule |-> s.local_subnet_input_schedule,
         remote_subnet_input_schedule |-> s.remote_subnet_input_schedule,
         guaranteed_response_memory_reservations |->
             s.queue_stats.guaranteed_response_memory_reservations]

\* CanisterQueues::calculate_queue_stats
RECURSIVE ReservedSlotsSum(_, _, _)
ReservedSlotsSum(canister_queues, peers, side) ==
    IF peers = {} THEN 0
    ELSE LET c == CHOOSE x \in peers : TRUE
         IN  canister_queues[c][side].reserved_slots
                 + ReservedSlotsSum(canister_queues, peers \ {c}, side)

calculate_queue_stats(canister_queues, memory_reservations, transient_bytes) ==
    [guaranteed_response_memory_reservations |-> memory_reservations,
     input_queues_reserved_slots |->
         ReservedSlotsSum(canister_queues, DOMAIN canister_queues, 1),
     output_queues_reserved_slots |->
         ReservedSlotsSum(canister_queues, DOMAIN canister_queues, 2),
     transient_stream_guaranteed_responses_size_bytes |-> transient_bytes]

\* canister_queue_ok: the queue is empty or starts with a non-stale reference
canister_queue_ok(queue, pool) ==
    QueueLen(queue) = 0 \/ PoolHas(pool, queue.queue[1])

\* CanisterQueues::test_invariants: "" for Ok, else the error
test_invariants(s) ==
    IF \E c \in DOMAIN s.canister_queues :
           \/ ~canister_queue_ok(InputQueue(s, c), s.pool)
           \/ ~canister_queue_ok(OutputQueue(s, c), s.pool)
    THEN "Stale reference at the head of queue"
    ELSE IF s.queue_stats /=
                calculate_queue_stats(
                    s.canister_queues,
                    s.queue_stats.guaranteed_response_memory_reservations,
                    s.queue_stats.transient_stream_guaranteed_responses_size_bytes)
    THEN "Inconsistent stats"
    ELSE ""

\* CanisterQueues from pb_queues::CanisterQueues (the legacy lists of
\* input_queues and output_queues are never written): [ok, state, err]
decode(item, capacity) ==
    LET decoded_pool ==
            pool_decode(IF item.pool = <<>> THEN PbMessagePoolDefault ELSE item.pool[1])
        pool == decoded_pool.pool
        peers == {item.canister_queues[i].canister_id : i \in 1..Len(item.canister_queues)}
        canister_queues ==
            [c \in peers |->
                LET i == CHOOSE j \in 1..Len(item.canister_queues) :
                             /\ item.canister_queues[j].canister_id = c
                             /\ \A k \in 1..Len(item.canister_queues) :
                                    item.canister_queues[k].canister_id = c => k <= j
                IN  <<queue_decode(item.canister_queues[i].input_queue),
                      queue_decode(item.canister_queues[i].output_queue)>>]
        queues ==
            [ingress_queue |-> item.ingress_queue,
             canister_queues |-> canister_queues,
             pool |-> pool,
             queue_stats |->
                 calculate_queue_stats(canister_queues,
                                       item.guaranteed_response_memory_reservations, 0),
             local_subnet_input_schedule |-> item.local_subnet_input_schedule,
             remote_subnet_input_schedule |-> item.remote_subnet_input_schedule,
             input_schedule_canisters |->
                 Range(item.local_subnet_input_schedule)
                     \cup Range(item.remote_subnet_input_schedule),
             next_input_queue |-> item.next_input_queue,
             callbacks_with_enqueued_response |->
                 {pool.messages[id].callback :
                     id \in {id \in UNION {Range(canister_queues[c][1].queue) : c \in peers} :
                                PoolHas(pool, id) /\ pool.messages[id].kind = "Response"}},
             default_queue_capacity |-> capacity,
             panicked |-> ""]
        Tested(err) == [ok |-> err = "", state |-> queues, err |-> err]
    IN  IF ~decoded_pool.ok
        THEN [ok |-> FALSE, state |-> queues, err |-> decoded_pool.err]
        ELSE Tested(test_invariants(queues))

(***************************************************************************)
(* The state: the fields of CanisterQueues, the output iterator while one  *)
(* exists, the caller's clock, history variables and the callers' budget  *)
(* of pushes.                                                              *)
(***************************************************************************)
VARIABLES ingress_queue, canister_queues, pool, queue_stats,
          local_subnet_input_schedule, remote_subnet_input_schedule,
          input_schedule_canisters, next_input_queue,
          callbacks_with_enqueued_response,
          default_queue_capacity, panicked, iter, now,
          h_unanswered_inbound, h_unanswered_outbound,
          h_callbacks, h_call_contexts,
          h_issued, h_taken, h_reissued, push_budget

queues_vars ==
    <<ingress_queue, canister_queues, pool, queue_stats,
      local_subnet_input_schedule, remote_subnet_input_schedule,
      input_schedule_canisters, next_input_queue,
      callbacks_with_enqueued_response>>

\* what the callers of the queues remember
history_vars ==
    <<h_unanswered_inbound, h_unanswered_outbound, h_callbacks, h_call_contexts>>

pool_history_vars == <<h_issued, h_taken, h_reissued>>

vars ==
    <<queues_vars, default_queue_capacity, panicked, iter, now,
      history_vars, pool_history_vars, push_budget>>

(***************************************************************************)
(* The canisters, messages and times the operations are called with.       *)
(***************************************************************************)
OwnCanisterId == 1

OtherCanisterId == 2

AllCanisters == {IC_00, OwnCanisterId, OtherCanisterId}

SubnetIds == {}

LocalCanisters == {}

Callbacks == {1, 2}

Deadlines == {NO_DEADLINE, 5}

Times == {400000}

Users == {1}

RequestSize == 2

ResponseSize == 1

\* a message of the own canister is a local one, whoever else is local
InputQueueTypeOf(sender) ==
    IF sender = OwnCanisterId \/ sender \in LocalCanisters
    THEN "LocalSubnet" ELSE "RemoteSubnet"

\* the calls made under callback 1 are best-effort ones, the others guaranteed
DeadlineOf(callback) == IF callback = 1 THEN 5 ELSE NO_DEADLINE

InputRequests ==
    {Request(OtherCanisterId, OwnCanisterId, 1, d, RequestSize) : d \in Deadlines}

InputResponses ==
    {Response(OtherCanisterId, OwnCanisterId, cb, DeadlineOf(cb), ResponseSize, "Data") :
        cb \in Callbacks}

OutputRequests ==
    {Request(OwnCanisterId, c, cb, DeadlineOf(cb), RequestSize) :
        c \in {OwnCanisterId, OtherCanisterId}, cb \in Callbacks}

SubnetRequests ==
    {Request(OwnCanisterId, IC_00, cb, DeadlineOf(cb), RequestSize) : cb \in Callbacks}

\* the response of the own canister to a call it has received
OutputResponse(originator, deadline) ==
    Response(OwnCanisterId, originator, 1, deadline, ResponseSize, "Data")

Accepts == {[c \in AllCanisters |-> n] : n \in {0, 1}}

(***************************************************************************)
(* The CanisterQueues value held in the variables.                          *)
(***************************************************************************)
Self ==
    [ingress_queue |-> ingress_queue,
     canister_queues |-> canister_queues,
     pool |-> pool,
     queue_stats |-> queue_stats,
     local_subnet_input_schedule |-> local_subnet_input_schedule,
     remote_subnet_input_schedule |-> remote_subnet_input_schedule,
     input_schedule_canisters |-> input_schedule_canisters,
     next_input_queue |-> next_input_queue,
     callbacks_with_enqueued_response |-> callbacks_with_enqueued_response,
     default_queue_capacity |-> default_queue_capacity,
     panicked |-> panicked]

Assign(s) ==
    /\ ingress_queue' = s.ingress_queue
    /\ canister_queues' = s.canister_queues
    /\ pool' = s.pool
    /\ queue_stats' = s.queue_stats
    /\ local_subnet_input_schedule' = s.local_subnet_input_schedule
    /\ remote_subnet_input_schedule' = s.remote_subnet_input_schedule
    /\ input_schedule_canisters' = s.input_schedule_canisters
    /\ next_input_queue' = s.next_input_queue
    /\ callbacks_with_enqueued_response' = s.callbacks_with_enqueued_response

\* a call returns: a panic aborts the process and leaves nothing to observe
Return(s) ==
    IF s.panicked /= ""
    THEN /\ panicked' = s.panicked
         /\ UNCHANGED queues_vars
    ELSE /\ Assign(s)
         /\ UNCHANGED panicked

\* what the callers remember after the call
Remember(s, unanswered_inbound, unanswered_outbound, callbacks, call_contexts) ==
    IF s.panicked /= ""
    THEN UNCHANGED history_vars
    ELSE /\ h_unanswered_inbound' = unanswered_inbound
         /\ h_unanswered_outbound' = unanswered_outbound
         /\ h_callbacks' = callbacks
         /\ h_call_contexts' = call_contexts

Running == panicked = "" /\ ~iter.active

\* the callers push while their budget lasts; a push that fails costs nothing
Pushed(s) ==
    /\ s.pool /= pool => push_budget > 0
    /\ push_budget' = IF s.panicked = "" /\ s.pool /= pool THEN push_budget - 1
                       ELSE push_budget

Plus(h, canister, n) == [h EXCEPT ![canister] = @ + n]

BagPlus(bag, e) ==
    IF e \in DOMAIN bag THEN [bag EXCEPT ![e] = @ + 1] ELSE Put(bag, e, 1)

BagMinus(bag, e) ==
    IF bag[e] = 1 THEN Remove(bag, e) ELSE [bag EXCEPT ![e] = @ - 1]

\* requests dropped from input queues, per sender
DroppedInbound(dropped, canister) ==
    Cardinality({i \in 1..Len(dropped) :
        /\ IdContext(dropped[i][1]) = "Inbound"
        /\ dropped[i][2].kind = "Request"
        /\ dropped[i][2].sender = canister})

\* requests dropped from output queues, per receiver
DroppedOutbound(dropped, canister) ==
    Cardinality({i \in 1..Len(dropped) :
        /\ IdContext(dropped[i][1]) = "Outbound"
        /\ dropped[i][2].kind = "Request"
        /\ dropped[i][2].receiver = canister})

InitQueues(capacity, pushes) ==
    /\ ingress_queue = IngressQueueDefault
    /\ canister_queues = <<>>
    /\ pool = MessagePoolDefault
    /\ queue_stats = QueueStatsDefault
    /\ local_subnet_input_schedule = <<>>
    /\ remote_subnet_input_schedule = <<>>
    /\ input_schedule_canisters = {}
    /\ next_input_queue = "LocalSubnet"
    /\ callbacks_with_enqueued_response = {}
    /\ default_queue_capacity = capacity
    /\ panicked = ""
    /\ iter = NoIterator
    /\ now = 0
    /\ h_unanswered_inbound = [c \in AllCanisters |-> 0]
    /\ h_unanswered_outbound = [c \in AllCanisters |-> 0]
    /\ h_callbacks = {}
    /\ h_call_contexts = <<>>
    /\ h_issued = {}
    /\ h_taken = {}
    /\ h_reissued = FALSE
    /\ push_budget = pushes

Init == InitQueues(QueueCapacity, MaxPushes)

(***************************************************************************)
(* The public operations of CanisterQueues.                                *)
(***************************************************************************)
PushIngress(user) ==
    /\ Running
    /\ Len(ingress_queue) < MaxIngress
    /\ ingress_queue' = ingress_push(ingress_queue, user)
    /\ UNCHANGED <<canister_queues, pool, queue_stats, local_subnet_input_schedule,
                   remote_subnet_input_schedule, input_schedule_canisters,
                   next_input_queue, callbacks_with_enqueued_response,
                   default_queue_capacity, panicked, iter, now,
                   history_vars, pool_history_vars, push_budget>>

PushInputAs(msg, input_queue_type) ==
    /\ Running
    /\ LET Returned(r, enqueued) ==
               /\ Pushed(r.state)
               /\ Return(r.state)
               /\ Remember(r.state,
                      IF msg.kind = "Request" /\ enqueued
                      THEN Plus(h_unanswered_inbound, msg.sender, 1)
                      ELSE h_unanswered_inbound,
                      IF msg.kind = "Response" /\ enqueued
                      THEN Plus(h_unanswered_outbound, msg.sender, -1)
                      ELSE h_unanswered_outbound,
                      h_callbacks, h_call_contexts)
           Called(r) == Returned(r, r.ret = "Ok" /\ r.state.pool /= pool)
       IN  Called(push_input(Self, msg, input_queue_type))
    /\ UNCHANGED <<default_queue_capacity, iter, now, pool_history_vars>>

PushInput(msg) == PushInputAs(msg, InputQueueTypeOf(msg.sender))

PopInput ==
    /\ Running
    /\ LET Called(r) ==
               /\ Return(r.state)
               /\ Remember(r.state, h_unanswered_inbound, h_unanswered_outbound,
                      IF r.msg.kind = "Response" THEN h_callbacks \ {r.msg.callback}
                      ELSE h_callbacks,
                      IF r.msg.kind = "Request"
                      THEN BagPlus(h_call_contexts, <<r.msg.sender, r.msg.deadline>>)
                      ELSE h_call_contexts)
       IN  Called(pop_input(Self))
    /\ UNCHANGED <<default_queue_capacity, iter, now, pool_history_vars, push_budget>>

PeekInput ==
    /\ Running
    /\ Return(peek_input(Self).state)
    /\ UNCHANGED <<default_queue_capacity, iter, now, history_vars, pool_history_vars, push_budget>>

SkipInput ==
    /\ Running
    /\ Return(skip_input(Self))
    /\ UNCHANGED <<default_queue_capacity, iter, now, history_vars, pool_history_vars, push_budget>>

PushOutputRequest(request) ==
    /\ Running
    /\ request.callback \notin h_callbacks
    /\ LET Called(r) ==
               /\ Pushed(r.state)
               /\ Return(r.state)
               /\ Remember(r.state, h_unanswered_inbound,
                      IF r.ret = "Ok"
                      THEN Plus(h_unanswered_outbound, request.receiver, 1)
                      ELSE h_unanswered_outbound,
                      IF r.ret = "Ok" THEN h_callbacks \cup {request.callback}
                      ELSE h_callbacks,
                      h_call_contexts)
       IN  Called(push_output_request(Self, request, now))
    /\ UNCHANGED <<default_queue_capacity, iter, now, pool_history_vars>>

PushOutputResponse(call_context) ==
    /\ Running
    /\ LET Called(response, s) ==
               /\ Pushed(s)
               /\ Return(s)
               /\ Remember(s, Plus(h_unanswered_inbound, response.receiver, -1),
                      h_unanswered_outbound, h_callbacks,
                      BagMinus(h_call_contexts, call_context))
           Responded(response) == Called(response, push_output_response(Self, response))
       IN  Responded(OutputResponse(call_context[1], call_context[2]))
    /\ UNCHANGED <<default_queue_capacity, iter, now, pool_history_vars>>

RejectSubnetOutputRequest(request) ==
    /\ Running
    /\ request.callback \notin h_callbacks
    /\ LET Called(r) ==
               /\ Pushed(r.state)
               /\ Return(r.state)
               /\ Remember(r.state, h_unanswered_inbound, h_unanswered_outbound,
                      IF r.ret = "Ok" THEN h_callbacks \cup {request.callback}
                      ELSE h_callbacks,
                      h_call_contexts)
       IN  Called(reject_subnet_output_request(Self, request, SubnetIds))
    /\ UNCHANGED <<default_queue_capacity, iter, now, pool_history_vars>>

InductMessageToSelf ==
    /\ Running
    /\ LET Returned(msg, r, enqueued) ==
               /\ Return(r.state)
               /\ Remember(r.state,
                      IF enqueued /\ msg.kind = "Request"
                      THEN Plus(h_unanswered_inbound, OwnCanisterId, 1)
                      ELSE h_unanswered_inbound,
                      IF enqueued /\ msg.kind = "Response"
                      THEN Plus(h_unanswered_outbound, OwnCanisterId, -1)
                      ELSE h_unanswered_outbound,
                      h_callbacks, h_call_contexts)
           Called(msg, r) ==
               Returned(msg, r,
                        r.ret = "Ok"
                        /\ r.state.pool.message_id_generator /= pool.message_id_generator)
       IN  Called(peek_output(Self, OwnCanisterId),
                  induct_message_to_self(Self, OwnCanisterId))
    /\ UNCHANGED <<default_queue_capacity, iter, now, pool_history_vars, push_budget>>

GarbageCollect ==
    /\ Running
    /\ Return(garbage_collect(Self))
    /\ UNCHANGED <<default_queue_capacity, iter, now, history_vars, pool_history_vars, push_budget>>

TimeOutMessages ==
    /\ Running
    /\ LET Called(r) ==
               /\ Return(r.state)
               /\ Remember(r.state,
                      [c \in AllCanisters |->
                          h_unanswered_inbound[c] - DroppedInbound(r.dropped, c)],
                      [c \in AllCanisters |->
                          h_unanswered_outbound[c] - DroppedOutbound(r.dropped, c)],
                      h_callbacks, h_call_contexts)
       IN  Called(time_out_messages(Self, now, OwnCanisterId, LocalCanisters))
    /\ UNCHANGED <<default_queue_capacity, iter, now, pool_history_vars, push_budget>>

ShedLargestMessage ==
    /\ Running
    /\ LET Called(r) ==
               /\ Return(r.state)
               /\ Remember(r.state,
                      [c \in AllCanisters |->
                          h_unanswered_inbound[c] - DroppedInbound(r.dropped, c)],
                      [c \in AllCanisters |->
                          h_unanswered_outbound[c] - DroppedOutbound(r.dropped, c)],
                      h_callbacks, h_call_contexts)
       IN  Called(shed_largest_message(Self, OwnCanisterId, LocalCanisters))
    /\ UNCHANGED <<default_queue_capacity, iter, now, pool_history_vars, push_budget>>

OutputQueuesForEach(accept) ==
    /\ Running
    /\ Return(output_queues_for_each(Self, accept))
    /\ UNCHANGED <<default_queue_capacity, iter, now, history_vars, pool_history_vars, push_budget>>

OutputIntoIter ==
    /\ Running
    /\ has_output(Self)
    /\ iter' = output_into_iter(Self)
    /\ UNCHANGED <<queues_vars, default_queue_capacity, panicked, now,
                   history_vars, pool_history_vars, push_budget>>

IterPop ==
    /\ panicked = ""
    /\ iter.active
    /\ LET Called(r) ==
               /\ Return(r.state)
               /\ iter' = IF r.state.panicked /= "" THEN iter ELSE r.iter
       IN  Called(iter_pop(Self, iter))
    /\ UNCHANGED <<default_queue_capacity, now, history_vars, pool_history_vars, push_budget>>

IterExcludeQueue ==
    /\ panicked = ""
    /\ iter.active
    /\ iter.queues /= <<>>
    /\ iter' = iter_exclude_queue(Self, iter)
    /\ UNCHANGED <<queues_vars, default_queue_capacity, panicked, now,
                   history_vars, pool_history_vars, push_budget>>

IterDrop ==
    /\ panicked = ""
    /\ iter.active
    /\ iter' = NoIterator
    /\ UNCHANGED <<queues_vars, default_queue_capacity, panicked, now,
                   history_vars, pool_history_vars, push_budget>>

\* the caller's clock moves on
AdvanceTime(time) ==
    /\ Running
    /\ time > now
    /\ now' = time
    /\ UNCHANGED <<queues_vars, default_queue_capacity, panicked, iter,
                   history_vars, pool_history_vars, push_budget>>

Next ==
    \/ \E user \in Users : PushIngress(user)
    \/ \E msg \in InputRequests \cup InputResponses : PushInput(msg)
    \/ PopInput
    \/ PeekInput
    \/ SkipInput
    \/ \E request \in OutputRequests : PushOutputRequest(request)
    \/ \E call_context \in DOMAIN h_call_contexts : PushOutputResponse(call_context)
    \/ \E request \in SubnetRequests : RejectSubnetOutputRequest(request)
    \/ InductMessageToSelf
    \/ GarbageCollect
    \/ TimeOutMessages
    \/ ShedLargestMessage
    \/ \E accept \in Accepts : OutputQueuesForEach(accept)
    \/ OutputIntoIter
    \/ IterPop
    \/ IterExcludeQueue
    \/ IterDrop
    \/ \E time \in Times : AdvanceTime(time)

Spec == Init /\ [][Next]_vars

(***************************************************************************)
(* SpecPool: the MessagePool on its own, under any sequence of insertions  *)
(* and removals.  h_issued are the ids the pool has assigned, h_taken the  *)
(* ids it has removed, h_reissued whether an id was assigned twice.        *)
(***************************************************************************)
PoolRequests ==
    {Request(OtherCanisterId, OwnCanisterId, 1, d, RequestSize) : d \in Deadlines}

PoolResponses ==
    {Response(OtherCanisterId, OwnCanisterId, 1, d, ResponseSize, "Data") : d \in Deadlines}

PoolIds(expired) == {expired[i][1] : i \in 1..Len(expired)}

PoolUnchanged ==
    UNCHANGED <<ingress_queue, canister_queues, queue_stats,
                local_subnet_input_schedule, remote_subnet_input_schedule,
                input_schedule_canisters, next_input_queue,
                callbacks_with_enqueued_response, default_queue_capacity,
                iter, history_vars>>

\* the pool after an insert that returned inserted.id
PoolInserted(inserted) ==
    /\ push_budget > 0
    /\ push_budget' = push_budget - 1
    /\ panicked' = IF inserted.panic THEN "insert: conflicting message id" ELSE panicked
    /\ pool' = IF inserted.panic THEN pool ELSE inserted.pool
    /\ h_issued' = h_issued \cup {inserted.id}
    /\ h_reissued' = (h_reissued \/ inserted.id \in h_issued)
    /\ UNCHANGED <<h_taken, now>>
    /\ PoolUnchanged

\* the pool after the messages with the ids `taken` were removed
PoolRemoved(removed, taken) ==
    /\ pool' = removed
    /\ h_taken' = h_taken \cup taken
    /\ UNCHANGED <<h_issued, h_reissued, now, panicked, push_budget>>
    /\ PoolUnchanged

PoolInsertInbound(msg) ==
    /\ panicked = ""
    /\ PoolInserted(insert_inbound(pool, msg))

PoolInsertOutboundRequest(request) ==
    /\ panicked = ""
    /\ PoolInserted(insert_outbound_request(pool, request, now))

PoolInsertOutboundResponse(response) ==
    /\ panicked = ""
    /\ PoolInserted(insert_outbound_response(pool, response))

PoolTakeMessage(id) ==
    /\ panicked = ""
    /\ LET Taken(taken) ==
               PoolRemoved(taken.pool, IF taken.msg = NoMessage THEN {} ELSE {id})
       IN  Taken(PoolTake(pool, id))

PoolExpireMessages ==
    /\ panicked = ""
    /\ LET Expired(expired) == PoolRemoved(expired.pool, PoolIds(expired.expired))
       IN  Expired(expire_messages(pool, now))

PoolShedLargestMessage ==
    /\ panicked = ""
    /\ LET Shed(shed) == PoolRemoved(shed.pool, IF shed.id = NoId THEN {} ELSE {shed.id})
       IN  Shed(pool_shed_largest_message(pool))

PoolAdvanceTime(time) ==
    /\ panicked = ""
    /\ time > now
    /\ now' = time
    /\ UNCHANGED <<pool, panicked, pool_history_vars, push_budget>>
    /\ PoolUnchanged

InitPool == InitQueues(QueueCapacity, MaxPoolInserts)

NextPool ==
    \/ \E msg \in PoolRequests \cup PoolResponses : PoolInsertInbound(msg)
    \/ \E request \in PoolRequests : PoolInsertOutboundRequest(request)
    \/ \E response \in PoolResponses : PoolInsertOutboundResponse(response)
    \/ \E id \in h_issued : PoolTakeMessage(id)
    \/ PoolExpireMessages
    \/ PoolShedLargestMessage
    \/ \E time \in Times : PoolAdvanceTime(time)

SpecPool == InitPool /\ [][NextPool]_vars

(***************************************************************************)
(* SpecTrim: the MessagePool under enough insertions of outbound requests  *)
(* for the entries of taken messages to outnumber the resident ones.       *)
(***************************************************************************)
\* messages inserted into the pool in one behaviour of specification SpecTrim
MaxTrimInserts == 5

InitTrim == InitQueues(QueueCapacity, MaxTrimInserts)

NextTrim ==
    \/ \E request \in PoolRequests : PoolInsertOutboundRequest(request)
    \/ \E id \in DOMAIN pool.messages : PoolTakeMessage(id)
    \/ PoolExpireMessages
    \/ PoolShedLargestMessage
    \/ \E time \in Times : PoolAdvanceTime(time)

SpecTrim == InitTrim /\ [][NextTrim]_vars

(***************************************************************************)
(* SpecS1: scenario S1.  The canister sends guaranteed response requests   *)
(* to one peer, each with a fresh callback; the peer answers the first     *)
(* one; messages are consumed from the output queue and popped from the    *)
(* input queue.                                                            *)
(***************************************************************************)
S1Peer == OtherCanisterId

S1Request(callback) ==
    Request(OwnCanisterId, S1Peer, callback, NO_DEADLINE, RequestSize)

S1Response ==
    Response(S1Peer, OwnCanisterId, 0, NO_DEADLINE, ResponseSize, "Data")

\* the callback of the next request: the number of pushes made so far, so
\* that the first request has callback 0 and no callback is used twice
NextCallback == default_queue_capacity + MaxS1Extra - push_budget

S1Accept == [c \in AllCanisters |-> IF c = S1Peer THEN 1 ELSE 0]

InitS1 ==
    \E capacity \in {QueueCapacity, DEFAULT_QUEUE_CAPACITY} :
        InitQueues(capacity, capacity + MaxS1Extra)

\* at the small capacity every order of the operations; at the default
\* capacity the order of the scenario, in which the peer answers and the
\* output queue is consumed once a further request would be refused
S1Order ==
    \/ default_queue_capacity = QueueCapacity
    \/ /\ S1Peer \in DOMAIN canister_queues
       /\ ~output_request_slots_available(Self, S1Peer)

\* the peer answers the first request, once
NextS1 ==
    \/ PushOutputRequest(S1Request(NextCallback))
    \/ 0 \in h_callbacks /\ S1Order /\ PushInputAs(S1Response, "LocalSubnet")
    \/ S1Order /\ OutputQueuesForEach(S1Accept)
    \/ PopInput

SpecS1 == InitS1 /\ [][NextS1]_vars

(***************************************************************************)
(* SpecRecycle: best-effort requests to one peer, from it and to the       *)
(* canister itself, all of one size and one deadline, so that whole queues *)
(* expire in one call of time_out_messages.  The peer answers nothing: the *)
(* only responses are the timeout responses the queues generate.           *)
(***************************************************************************)
RecycleDeadline == 5

RecycleSize == 1

\* the callback of the next request: the number of pushes made so far
RecycleCallback == MaxRecyclePushes - push_budget

RecycleOutputRequests ==
    {Request(OwnCanisterId, c, RecycleCallback, RecycleDeadline, RecycleSize) :
        c \in {OwnCanisterId, OtherCanisterId}}

RecycleInputRequest ==
    Request(OtherCanisterId, OwnCanisterId, 0, RecycleDeadline, RecycleSize)

InitRecycle == InitQueues(QueueCapacity, MaxRecyclePushes)

NextRecycle ==
    \/ \E request \in RecycleOutputRequests : PushOutputRequest(request)
    \/ PushInput(RecycleInputRequest)
    \/ ShedLargestMessage
    \/ TimeOutMessages
    \/ \E time \in Times : AdvanceTime(time)

SpecRecycle == InitRecycle /\ [][NextRecycle]_vars

(***************************************************************************)
(* SpecSubnet: calls to one peer and to the management canister.  The      *)
(* calls to the management canister are rejected at once                   *)
(* (reject_subnet_output_request); the peer and the management canister    *)
(* push responses of their own accord.                                     *)
(***************************************************************************)
SubnetOutputRequests ==
    {Request(OwnCanisterId, OtherCanisterId, cb, DeadlineOf(cb), RequestSize) :
        cb \in Callbacks}

SubnetResponses ==
    {Response(IC_00, OwnCanisterId, cb, DeadlineOf(cb), ResponseSize, "Data") :
        cb \in Callbacks}

InitSubnet == InitQueues(QueueCapacity, MaxSubnetPushes)

NextSubnet ==
    \/ \E request \in SubnetOutputRequests : PushOutputRequest(request)
    \/ \E msg \in InputResponses : PushInput(msg)
    \/ \E msg \in SubnetResponses : PushInputAs(msg, "LocalSubnet")
    \/ \E request \in SubnetRequests : RejectSubnetOutputRequest(request)
    \/ PopInput

SpecSubnet == InitSubnet /\ [][NextSubnet]_vars

(***************************************************************************)
(* SpecRoundRobin: two senders of the local subnet, the canister itself    *)
(* (requests to itself, inducted) and the management canister (calls       *)
(* rejected at once), and one sender of a remote subnet; all messages are  *)
(* best-effort ones and may be shed.                                       *)
(***************************************************************************)
RoundRobinCallback == MaxRoundRobinPushes - push_budget

RoundRobinRequest(receiver) ==
    Request(OwnCanisterId, receiver, RoundRobinCallback, RecycleDeadline, RequestSize)

InitRoundRobin == InitQueues(QueueCapacity, MaxRoundRobinPushes)

NextRoundRobin ==
    \/ PushOutputRequest(RoundRobinRequest(OwnCanisterId))
    \/ InductMessageToSelf
    \/ RejectSubnetOutputRequest(RoundRobinRequest(IC_00))
    \/ PushInput(RecycleInputRequest)
    \/ PopInput
    \/ ShedLargestMessage

SpecRoundRobin == InitRoundRobin /\ [][NextRoundRobin]_vars

(***************************************************************************)
(* The queues behind message routing: a response reaches push_input only   *)
(* for a call that has left its output queue.                              *)
(***************************************************************************)
\* the requests still waiting in the output queue to a canister
UndeliveredRequests(s, canister) ==
    {id \in Range(OutputQueue(s, canister).queue) :
        IdKind(id) = "Request" /\ PoolHas(s.pool, id)}

\* the response answers a call that was made, has left the output queue and
\* has no response yet, on a reservation that is not that of a waiting call
AnswersDeliveredCall(response) ==
    /\ response.sender \in DOMAIN canister_queues
    /\ response.callback \in h_callbacks
    /\ response.callback \notin callbacks_with_enqueued_response
    /\ \A id \in UndeliveredRequests(Self, response.sender) :
           pool.messages[id].callback /= response.callback
    /\ canister_queues[response.sender][1].reserved_slots
           > Cardinality(UndeliveredRequests(Self, response.sender))

DeliverResponse(response) ==
    /\ AnswersDeliveredCall(response)
    /\ PushInput(response)

NextDelivery ==
    \/ \E user \in Users : PushIngress(user)
    \/ \E msg \in InputRequests : PushInput(msg)
    \/ \E response \in InputResponses : DeliverResponse(response)
    \/ PopInput
    \/ PeekInput
    \/ SkipInput
    \/ \E request \in OutputRequests : PushOutputRequest(request)
    \/ \E call_context \in DOMAIN h_call_contexts : PushOutputResponse(call_context)
    \/ \E request \in SubnetRequests : RejectSubnetOutputRequest(request)
    \/ InductMessageToSelf
    \/ GarbageCollect
    \/ TimeOutMessages
    \/ ShedLargestMessage
    \/ \E accept \in Accepts : OutputQueuesForEach(accept)
    \/ OutputIntoIter
    \/ IterPop
    \/ IterExcludeQueue
    \/ IterDrop
    \/ \E time \in Times : AdvanceTime(time)

SpecDelivery == Init /\ [][NextDelivery]_vars

(***************************************************************************)
(* SpecSelf: the canister calls itself.  Its requests reach the input      *)
(* queue from itself by induct_message_to_self or, routed through the      *)
(* stream of its own subnet, by push_input.                                *)
(***************************************************************************)
\* messages the callers of specification SpecSelf push in one behaviour
MaxSelfPushes == 4

SelfRequests ==
    {Request(OwnCanisterId, OwnCanisterId, cb, DeadlineOf(cb), RequestSize) :
        cb \in Callbacks}

InitSelf == InitQueues(QueueCapacity, MaxSelfPushes)

NextSelf ==
    \/ \E request \in SelfRequests : PushOutputRequest(request)
    \/ InductMessageToSelf
    \/ \E request \in SelfRequests : PushInput(request)
    \/ PopInput
    \/ ShedLargestMessage

SpecSelf == InitSelf /\ [][NextSelf]_vars

(***************************************************************************)
(* SpecIter: best-effort requests to the canister itself and to one peer,  *)
(* some of them shed behind the head of their queue, consumed through the  *)
(* output iterator.                                                        *)
(***************************************************************************)
\* messages the callers of specification SpecIter push in one behaviour
MaxIterPushes == 3

IterRequests ==
    {Request(OwnCanisterId, c, MaxIterPushes - push_budget, RecycleDeadline, RequestSize) :
        c \in {OwnCanisterId, OtherCanisterId}}

InitIter == InitQueues(QueueCapacity, MaxIterPushes)

NextIter ==
    \/ \E request \in IterRequests : PushOutputRequest(request)
    \/ ShedLargestMessage
    \/ \E accept \in Accepts : OutputQueuesForEach(accept)
    \/ OutputIntoIter
    \/ IterPop
    \/ IterExcludeQueue
    \/ IterDrop

SpecIter == InitIter /\ [][NextIter]_vars

(***************************************************************************)
(* What the claims speak of.                                                *)
(***************************************************************************)
Peers == DOMAIN canister_queues

InputQueueOf(canister) == canister_queues[canister][1]

OutputQueueOf(canister) == canister_queues[canister][2]

HeadResolves(queue) == queue.queue = <<>> \/ PoolHas(pool, Head(queue.queue))

ReservedSlots(canister, side) ==
    IF canister \in Peers THEN canister_queues[canister][side].reserved_slots ELSE 0

RECURSIVE SumReservedSlots(_, _)
SumReservedSlots(canisters, side) ==
    IF canisters = {} THEN 0
    ELSE LET c == CHOOSE c \in canisters : TRUE
         IN  canister_queues[c][side].reserved_slots
             + SumReservedSlots(canisters \ {c}, side)

NoDuplicates(schedule) ==
    \A i, j \in 1..Len(schedule) : schedule[i] = schedule[j] => i = j

\* the callback ids of the responses enqueued in input queues
EnqueuedResponseCallbacks ==
    {pool.messages[id].callback :
        id \in {id \in UNION {Range(InputQueueOf(c).queue) : c \in Peers} :
                   PoolHas(pool, id) /\ pool.messages[id].kind = "Response"}}

\* the request slots and the response slots of a queue, counted from its
\* references and reservations; a peer without queues has all slots free
RequestReferences(q) ==
    Cardinality({i \in 1..Len(q.queue) : IdKind(q.queue[i]) = "Request"})

ResponseReferences(q) ==
    Cardinality({i \in 1..Len(q.queue) : IdKind(q.queue[i]) = "Response"})

FreeRequestSlot(canister, side) ==
    canister \in Peers =>
        RequestReferences(canister_queues[canister][side]) < default_queue_capacity

ReservableResponseSlot(canister, side) ==
    canister \in Peers =>
        canister_queues[canister][side].reserved_slots
            + ResponseReferences(canister_queues[canister][side]) < default_queue_capacity

\* the requests from a peer that are enqueued in its input queue
LiveInboundRequests(canister) ==
    Cardinality({i \in 1..QueueLen(InputQueueOf(canister)) :
        /\ PoolHas(pool, InputQueueOf(canister).queue[i])
        /\ IdKind(InputQueueOf(canister).queue[i]) = "Request"})

\* C1: after every operation, every input queue and every output queue is
\* empty or has at its front a reference to a message resident in the pool.
C1_HeadNonStale ==
    panicked = "" =>
        \A c \in Peers : HeadResolves(InputQueueOf(c)) /\ HeadResolves(OutputQueueOf(c))

\* C2: the two input schedules have no duplicates and are disjoint, the set
\* input_schedule_canisters is exactly the union of their entries, and every
\* peer with a non-empty input queue is in one of the two schedules.
C2_ScheduleIntegrity ==
    /\ NoDuplicates(local_subnet_input_schedule)
    /\ NoDuplicates(remote_subnet_input_schedule)
    /\ Range(local_subnet_input_schedule) \cap Range(remote_subnet_input_schedule) = {}
    /\ input_schedule_canisters =
           Range(local_subnet_input_schedule) \cup Range(remote_subnet_input_schedule)
    /\ \A c \in Peers :
           QueueLen(InputQueueOf(c)) > 0 =>
               c \in Range(local_subnet_input_schedule)
                     \cup Range(remote_subnet_input_schedule)

\* C3: a callback id is in callbacks_with_enqueued_response if and only if a
\* response carrying it is enqueued (resident and referenced) in an input queue.
C3_CallbacksOfEnqueuedResponses ==
    callbacks_with_enqueued_response = EnqueuedResponseCallbacks

\* C4: for every peer p the reserved slots of the output queue to p are the
\* requests from p accepted by push_input and neither answered nor dropped, and
\* the reserved slots of the input queue from p are the requests to p accepted
\* by push_output_request that no response was enqueued for yet.
C4_SlotConservation ==
    \A p \in AllCanisters :
        /\ ReservedSlots(p, 2) = h_unanswered_inbound[p]
        /\ ReservedSlots(p, 1) = h_unanswered_outbound[p]

\* C3, witness: the response enqueued for a request that timed out in an
\* output queue has its callback recorded.
C3_TimeoutResponseRecorded ==
    \E c \in Peers : \E i \in 1..QueueLen(InputQueueOf(c)) :
        /\ PoolHas(pool, InputQueueOf(c).queue[i])
        /\ pool.messages[InputQueueOf(c).queue[i]].kind = "Response"
        /\ pool.messages[InputQueueOf(c).queue[i]].payload = "Reject: Request timed out."
        /\ pool.messages[InputQueueOf(c).queue[i]].callback
               \in callbacks_with_enqueued_response

\* C5: input_queues_reserved_slots is the sum of reserved_slots over the input
\* queues and output_queues_reserved_slots the sum over the output queues; a
\* request enqueued in an input queue still has its slot in the counter, so
\* dropping it never decrements a counter that is zero.
C5_StatsConsistency ==
    /\ queue_stats.input_queues_reserved_slots = SumReservedSlots(Peers, 1)
    /\ queue_stats.output_queues_reserved_slots = SumReservedSlots(Peers, 2)
    /\ \A c \in Peers : LiveInboundRequests(c) <= ReservedSlots(c, 2)

\* C5, witness: slots are reserved in input queues and in output queues.
C5_SlotsReserved ==
    /\ queue_stats.input_queues_reserved_slots > 0
    /\ queue_stats.output_queues_reserved_slots > 0

\* C10: push_input of a request returns Ok exactly when the input queue from
\* the sender has a free request slot and a response slot can be reserved in
\* the output queue to the sender; otherwise it returns QueueFull and changes
\* nothing.
C10_PushInputRequestAtomic ==
    panicked = "" =>
        \A msg \in InputRequests :
            LET Called(r) ==
                    /\ r.ret \in {"Ok", "QueueFull"}
                    /\ r.ret = "Ok" <=>
                           (FreeRequestSlot(msg.sender, 1)
                            /\ ReservableResponseSlot(msg.sender, 2))
                    /\ r.ret = "QueueFull" => r.state = Self
            IN  Called(push_input(Self, msg, InputQueueTypeOf(msg.sender)))

\* C10, witness: the input queue from a peer has a free request slot and the
\* output queue to it has no response slot left to reserve.
C10_SecondCheckFails ==
    /\ panicked = ""
    /\ \E c \in Peers :
           /\ FreeRequestSlot(c, 1)
           /\ ~ReservableResponseSlot(c, 2)
           /\ \E msg \in InputRequests :
                  /\ msg.sender = c
                  /\ push_input(Self, msg, InputQueueTypeOf(c)).ret = "QueueFull"

\* scenario S1: the requests in the output queue to the peer, and the result of
\* one more push_output_request to it
S1Pushes == IF S1Peer \in Peers THEN QueueLen(OutputQueueOf(S1Peer)) ELSE 0

S1Push == push_output_request(Self, S1Request(NextCallback), now)

\* only pushes so far: every accepted request is in the output queue and in
\* the pool and has its response slot reserved, and nothing is in input queues
S1OnlyPushes ==
    /\ PoolLen(pool) = S1Pushes
    /\ pool.message_stats.inbound_message_count = 0
    /\ ReservedSlots(S1Peer, 1) = S1Pushes
    /\ callbacks_with_enqueued_response = {}

\* the response of the peer is enqueued in its input queue
S1ResponseEnqueued ==
    /\ S1Peer \in Peers
    /\ QueueLen(InputQueueOf(S1Peer)) = 1
    /\ PoolGet(pool, Head(InputQueueOf(S1Peer).queue)) = S1Response

\* `capacity` pushes, nothing popped, then the response to the first request
S1AfterResponse ==
    /\ panicked = ""
    /\ S1ResponseEnqueued
    /\ S1Pushes = default_queue_capacity
    /\ pool.message_stats.outbound_message_count = default_queue_capacity
    /\ ReservedSlots(S1Peer, 1) = default_queue_capacity - 1

\* after that, one request consumed from the output queue and the response
\* popped from the input queue
S1Released ==
    /\ panicked = ""
    /\ S1Peer \in Peers
    /\ QueueLen(InputQueueOf(S1Peer)) = 0
    /\ S1Pushes = default_queue_capacity - 1
    /\ ReservedSlots(S1Peer, 1) = default_queue_capacity - 1

\* C8: push_output_request to a peer returns QueueFull exactly when the output
\* queue to the peer has no free request slot or the input queue from it has no
\* response slot left to reserve, and then changes nothing; from the empty
\* state and with pushes only, the push succeeds exactly while fewer than
\* `capacity` requests were pushed (500 succeed, the 501st is refused).
C8_OutputBackpressure ==
    panicked = "" =>
        LET Called(r) ==
                /\ r.ret \in {"Ok", "QueueFull"}
                /\ r.ret = "QueueFull" <=>
                       (~FreeRequestSlot(S1Peer, 2) \/ ~ReservableResponseSlot(S1Peer, 1))
                /\ r.ret = "QueueFull" => r.state = Self
                /\ S1OnlyPushes => (r.ret = "Ok" <=> S1Pushes < default_queue_capacity)
        IN  Called(S1Push)

\* C8, witness: 500 requests were pushed at capacity 500, nothing else was
\* done, and the 501st push returns QueueFull.
C8_FullAfter500 ==
    /\ panicked = ""
    /\ default_queue_capacity = DEFAULT_QUEUE_CAPACITY
    /\ S1OnlyPushes
    /\ S1Pushes = DEFAULT_QUEUE_CAPACITY
    /\ S1Push.ret = "QueueFull"

\* C9, as stated: after `capacity` pushes and the push_input of the response
\* to the first request, a further push_output_request succeeds.
C9_ReleasedByResponse == S1AfterResponse => S1Push.ret = "Ok"

\* C9, amended: after `capacity` pushes and the push_input of the response to
\* the first request, a further push_output_request still returns QueueFull
\* (the output queue holds `capacity` requests, the input queue `capacity - 1`
\* reservations and the response); it succeeds once a request was consumed
\* from the output queue and the response was popped from the input queue.
C9_ReleasedByPops ==
    /\ S1AfterResponse => S1Push.ret = "QueueFull"
    /\ S1Released => S1Push.ret = "Ok"

\* C9, witness: scenario S1 at capacity 500, after the response was pushed.
C9_S1AfterResponse ==
    /\ default_queue_capacity = DEFAULT_QUEUE_CAPACITY
    /\ S1AfterResponse

\* scenario S1 at capacity 500, released
C9_S1Released ==
    /\ default_queue_capacity = DEFAULT_QUEUE_CAPACITY
    /\ S1Released
    /\ ~(0 \in h_callbacks)

\* C6: the pool never assigns to an inserted message an id it has assigned
\* before, whatever insertions and removals came in between.
C6_IdentifierUniqueness == ~h_reissued

\* C7: an id whose message was removed from the pool (by take, expire_messages
\* or shed_largest_message) resolves to no message in any later state:
\* pool.get(id) and pool.take(id) return None.
C7_TakenIdsStayGone ==
    \A id \in h_taken :
        /\ PoolGet(pool, id) = NoMessage
        /\ PoolTake(pool, id).msg = NoMessage

\* the responses a peer may push, whatever was asked of it
AnyResponses ==
    {Response(c, OwnCanisterId, cb, d, ResponseSize, "Data") :
        c \in AllCanisters, cb \in Callbacks, d \in Deadlines}

HasReservedResponseSlot(canister) == ReservedSlots(canister, 1) > 0

\* the duplicates: responses whose callback already has a response enqueued
DuplicateResponses(deadlines) ==
    {msg \in AnyResponses :
        /\ msg.deadline \in deadlines
        /\ msg.callback \in callbacks_with_enqueued_response}

\* C11, as stated: push_input of a guaranteed response whose callback is in
\* callbacks_with_enqueued_response returns NonMatchingResponse("Duplicate
\* response") and leaves the state unchanged, also when it is the second push
\* of the response to a single request.
C11_DuplicateGuaranteedRejected ==
    panicked = "" =>
        \A msg \in DuplicateResponses({NO_DEADLINE}) :
            LET Called(r) ==
                    /\ r.ret = "NonMatchingResponse: Duplicate response"
                    /\ r.state = Self
            IN  Called(push_input(Self, msg, InputQueueTypeOf(msg.sender)))

\* C11, amended: push_input of a guaranteed response whose callback is in
\* callbacks_with_enqueued_response returns NonMatchingResponse and leaves the
\* state unchanged; the error is "Duplicate response" while the input queue
\* from the sender has a reserved response slot and "No reserved response
\* slot" when it has none, as after the response to a single request.
C11_DuplicateGuaranteedRefused ==
    panicked = "" =>
        \A msg \in DuplicateResponses({NO_DEADLINE}) :
            LET Called(r) ==
                    /\ r.ret = IF HasReservedResponseSlot(msg.sender)
                               THEN "NonMatchingResponse: Duplicate response"
                               ELSE "NonMatchingResponse: No reserved response slot"
                    /\ r.state = Self
            IN  Called(push_input(Self, msg, InputQueueTypeOf(msg.sender)))

\* C11, witness: a guaranteed response is pushed while a response with its
\* callback is enqueued in the input queue from its sender and that queue
\* still has a reserved slot, and is refused as a duplicate.
C11_DuplicateWithReservedSlot ==
    /\ panicked = ""
    /\ \E msg \in DuplicateResponses({NO_DEADLINE}) :
           /\ HasReservedResponseSlot(msg.sender)
           /\ \E id \in Range(InputQueueOf(msg.sender).queue) :
                  /\ PoolHas(pool, id)
                  /\ pool.messages[id].kind = "Response"
                  /\ pool.messages[id].callback = msg.callback
                  /\ pool.messages[id].deadline = NO_DEADLINE
           /\ push_input(Self, msg, InputQueueTypeOf(msg.sender)).ret
                  = "NonMatchingResponse: Duplicate response"

\* C12, as stated: push_input of a best-effort response whose callback is in
\* callbacks_with_enqueued_response returns Ok and changes nothing.
C12_DuplicateBestEffortIgnored ==
    panicked = "" =>
        \A msg \in DuplicateResponses(Deadlines \ {NO_DEADLINE}) :
            LET Called(r) ==
                    /\ r.ret = "Ok"
                    /\ r.state = Self
            IN  Called(push_input(Self, msg, InputQueueTypeOf(msg.sender)))

\* C12, amended: push_input of a best-effort response whose callback is in
\* callbacks_with_enqueued_response changes nothing; it returns Ok while the
\* input queue from the sender has a reserved response slot, and
\* NonMatchingResponse("No reserved response slot") when it has none.
C12_DuplicateBestEffortUnchanged ==
    panicked = "" =>
        \A msg \in DuplicateResponses(Deadlines \ {NO_DEADLINE}) :
            LET Called(r) ==
                    /\ r.ret = IF HasReservedResponseSlot(msg.sender)
                               THEN "Ok"
                               ELSE "NonMatchingResponse: No reserved response slot"
                    /\ r.state = Self
            IN  Called(push_input(Self, msg, InputQueueTypeOf(msg.sender)))

\* C12, witness: a best-effort response arrives after the timeout response of
\* its request was enqueued, the input queue from its sender has a reserved
\* slot, and the push returns Ok.
C12_LateBestEffortResponse ==
    /\ panicked = ""
    /\ \E msg \in DuplicateResponses(Deadlines \ {NO_DEADLINE}) :
           /\ HasReservedResponseSlot(msg.sender)
           /\ \E id \in Range(InputQueueOf(msg.sender).queue) :
                  /\ PoolHas(pool, id)
                  /\ pool.messages[id].callback = msg.callback
                  /\ pool.messages[id].payload = "Reject: Request timed out."
           /\ push_input(Self, msg, InputQueueTypeOf(msg.sender)).ret = "Ok"

\* C13: push_input of a response from a sender that has no queue pair, or
\* whose input queue has no reserved response slot, returns
\* NonMatchingResponse and changes nothing; so the responses accepted from a
\* peer never outnumber the requests sent to it: the requests sent to a peer
\* and not answered yet, by a response accepted from it or by a timeout
\* response, are never fewer than none.
C13_UnsolicitedResponseRejected ==
    panicked = "" =>
        /\ \A msg \in AnyResponses :
               ~HasReservedResponseSlot(msg.sender) =>
                   LET Called(r) ==
                           /\ r.ret = "NonMatchingResponse: No reserved response slot"
                           /\ r.state = Self
                   IN  Called(push_input(Self, msg, InputQueueTypeOf(msg.sender)))
        /\ \A p \in AllCanisters : h_unanswered_outbound[p] >= 0

\* the three sources of pop_input in a CanisterQueues value s: a source yields
\* when it holds a message, the ingress queue in itself and a subnet source in
\* the input queue of a scheduled sender
SourceYields(s, source) ==
    IF source = "Ingress" THEN s.ingress_queue /= <<>>
    ELSE \E sender \in Range(Schedule(s, source)) :
             /\ sender \in DOMAIN s.canister_queues
             /\ QueueLen(InputQueue(s, sender)) > 0

\* the source a message popped from s came from
ServedSource(s, msg) ==
    IF msg.kind = "Ingress" THEN "Ingress"
    ELSE IF msg.sender \in Range(s.local_subnet_input_schedule) THEN "LocalSubnet"
    ELSE IF msg.sender \in Range(s.remote_subnet_input_schedule) THEN "RemoteSubnet"
    ELSE "None"

\* the cyclic order of the sources: LocalSubnet, Ingress, RemoteSubnet
SourceAfter(source) ==
    IF source = "LocalSubnet" THEN "Ingress"
    ELSE IF source = "Ingress" THEN "RemoteSubnet"
    ELSE "LocalSubnet"

\* the first source that yields, in the cyclic order and from the cursor on
FirstYielding(s) ==
    LET first == s.next_input_queue
        second == SourceAfter(first)
        third == SourceAfter(second)
    IN  IF SourceYields(s, first) THEN first
        ELSE IF SourceYields(s, second) THEN second
        ELSE IF SourceYields(s, third) THEN third
        ELSE "None"

\* pop_input of s serves the first source that yields and leaves the cursor
\* behind that source
ServesInTurn(s, r) ==
    r.state.panicked = "" =>
        IF FirstYielding(s) = "None" THEN r.msg = NoMessage
        ELSE /\ r.msg /= NoMessage
             /\ ServedSource(s, r.msg) = FirstYielding(s)
             /\ r.state.next_input_queue = SourceAfter(FirstYielding(s))

\* C14: successive pop_input calls serve the sources in the cyclic order
\* LocalSubnet, Ingress, RemoteSubnet from the cursor on, one message from each
\* source that holds one; a source is served twice in a row only when the two
\* other sources yield nothing.
C14_SourceRotation ==
    panicked = "" =>
        LET Twice(r1, r2) ==
                /\ ServesInTurn(Self, r1)
                /\ ServesInTurn(r1.state, r2)
                /\ (/\ r2.state.panicked = ""
                    /\ r1.msg /= NoMessage
                    /\ r2.msg /= NoMessage
                    /\ ServedSource(Self, r1.msg) = ServedSource(r1.state, r2.msg))
                   => \A source \in {"LocalSubnet", "Ingress", "RemoteSubnet"} :
                          SourceYields(r1.state, source)
                              => source = ServedSource(Self, r1.msg)
            Once(r1) == Twice(r1, pop_input(r1.state))
        IN  Once(pop_input(Self))

\* C14, witness: all three sources hold a message and three successive
\* pop_input calls serve the local subnet, the ingress queue and the remote
\* subnet, in this order.
C14_AllSourcesServed ==
    /\ panicked = ""
    /\ next_input_queue = "LocalSubnet"
    /\ \A source \in {"LocalSubnet", "Ingress", "RemoteSubnet"} :
           SourceYields(Self, source)
    /\ LET Thrice(r1, r2, r3) ==
               /\ r3.state.panicked = ""
               /\ ServedSource(Self, r1.msg) = "LocalSubnet"
               /\ ServedSource(r1.state, r2.msg) = "Ingress"
               /\ ServedSource(r2.state, r3.msg) = "RemoteSubnet"
           Twice(r1, r2) == Thrice(r1, r2, pop_input(r2.state))
           Once(r1) == Twice(r1, pop_input(r1.state))
       IN  Once(pop_input(Self))

\* the references of a queue that resolve in the pool, in queue order
LiveReferences(q) == SelectSeq(q.queue, LAMBDA id : PoolHas(pool, id))

\* the place of a message in the order of insertion into the pool
IdGenerator(id) == id \div 8

\* the messages enqueued in the input queue from a peer and not dropped are
\* referenced there, once, in the order in which they were enqueued
EnqueuedInOrder(canister) ==
    LET live == LiveReferences(InputQueueOf(canister))
    IN  /\ \A i \in 1..Len(live) :
               /\ IdContext(live[i]) = "Inbound"
               /\ pool.messages[live[i]].sender = canister
        /\ \A i, j \in 1..Len(live) :
               i < j => IdGenerator(live[i]) < IdGenerator(live[j])
        /\ \A other \in Peers \ {canister} :
               Range(live) \cap Range(LiveReferences(InputQueueOf(other))) = {}

\* pop_input returns the first of them and removes it
PopsTheFirst(r) ==
    (r.state.panicked = "" /\ r.msg.kind \in {"Request", "Response"}) =>
        \E canister \in Peers :
            LET live == LiveReferences(InputQueueOf(canister))
            IN  /\ live /= <<>>
                /\ r.msg = pool.messages[live[1]]
                /\ r.msg.sender = canister
                /\ ~PoolHas(r.state.pool, live[1])
                /\ LiveReferences(InputQueue(r.state, canister)) = Tail(live)

\* C15: for every peer, pop_input returns the messages of the input queue
\* from that peer in the order in which they were enqueued there, skipping
\* only the messages dropped by expiration or shedding, and returns no
\* message twice.
C15_PerPeerFifo ==
    panicked = "" =>
        /\ \A canister \in Peers : EnqueuedInOrder(canister)
        /\ PopsTheFirst(pop_input(Self))

\* a scheduled sender is waiting when its input queue holds a message
IsWaiting(s, sender) ==
    /\ sender \in DOMAIN s.canister_queues
    /\ QueueLen(InputQueue(s, sender)) > 0

\* the waiting senders of a source of s, in schedule order
WaitingSenders(s, source) ==
    SelectSeq(Schedule(s, source), LAMBDA sender : IsWaiting(s, sender))

\* the schedule behind the first waiting sender
BehindFirstWaiting(schedule, s) ==
    LET first == CHOOSE i \in 1..Len(schedule) :
                     /\ IsWaiting(s, schedule[i])
                     /\ \A j \in 1..(i - 1) : ~IsWaiting(s, schedule[j])
    IN  SubSeq(schedule, first + 1, Len(schedule))

\* a pop from a source of s serves the first waiting sender with the message
\* at the head of its queue; the senders scheduled behind it keep their order
\* and the served one follows them if its queue still holds a message
ServesFirstWaiting(s, source, r) ==
    LET waiting == WaitingSenders(s, source)
    IN  r.state.panicked = "" =>
            IF waiting = <<>>
            THEN r.msg = NoMessage /\ Schedule(r.state, source) = <<>>
            ELSE /\ r.msg = PoolGet(s.pool, Head(InputQueue(s, waiting[1]).queue))
                 /\ Schedule(r.state, source) =
                        BehindFirstWaiting(Schedule(s, source), s)
                        \o (IF IsWaiting(r.state, waiting[1])
                            THEN <<waiting[1]>> ELSE <<>>)

\* C16: consecutive pops from one source serve the scheduled senders in
\* schedule order, one message per sender per turn; a sender whose queue
\* still holds a message goes to the back, so that no sender is served twice
\* while another sender of the source is waiting.
C16_RoundRobinAcrossPeers ==
    panicked = "" =>
        \A source \in {"LocalSubnet", "RemoteSubnet"} :
            LET Twice(r1, r2) ==
                    /\ ServesFirstWaiting(Self, source, r1)
                    /\ ServesFirstWaiting(r1.state, source, r2)
                    /\ (/\ r2.state.panicked = ""
                        /\ r2.msg /= NoMessage
                        /\ Head(WaitingSenders(Self, source))
                               = Head(WaitingSenders(r1.state, source)))
                       => Len(WaitingSenders(r1.state, source)) = 1
                Once(r1) == Twice(r1, pop_canister_input(r1.state, source))
            IN  Once(pop_canister_input(Self, source))

\* C16, witness: two senders of the local subnet are scheduled, the first
\* with two messages; three pops serve the first, the second and the first
\* again.
C16_FirstSecondFirst ==
    /\ panicked = ""
    /\ Len(local_subnet_input_schedule) = 2
    /\ WaitingSenders(Self, "LocalSubnet") = local_subnet_input_schedule
    /\ QueueLen(InputQueueOf(local_subnet_input_schedule[1])) = 2
    /\ LET Thrice(r1, r2, r3) ==
               /\ r3.state.panicked = ""
               /\ r1.msg.sender = local_subnet_input_schedule[1]
               /\ r2.msg.sender = local_subnet_input_schedule[2]
               /\ r3.msg.sender = local_subnet_input_schedule[1]
           Twice(r1, r2) == Thrice(r1, r2, pop_canister_input(r2.state, "LocalSubnet"))
           Once(r1) == Twice(r1, pop_canister_input(r1.state, "LocalSubnet"))
       IN  Once(pop_canister_input(Self, "LocalSubnet"))

\* C17: peek_input returns a message if and only if a pop_input that follows
\* it at once returns the same message, and peek_input removes no message
\* from the pool, from the ingress queue or from any queue.
C17_PeekPopAgreement ==
    panicked = "" =>
        LET Popped(peeked, popped) ==
                (peeked.state.panicked = "" /\ popped.state.panicked = "") =>
                    /\ peeked.msg = popped.msg
                    /\ peeked.state.pool = pool
                    /\ peeked.state.canister_queues = canister_queues
                    /\ peeked.state.ingress_queue = ingress_queue
            Peeked(peeked) == Popped(peeked, pop_input(peeked.state))
        IN  Peeked(peek_input(Self))

\* C17, witness: the source at the cursor has a scheduled sender whose queue
\* was emptied; peek_input drops it from the schedule and returns the message
\* of another source, which pop_input then returns.
C17_PeekPastEmptiedQueue ==
    /\ panicked = ""
    /\ next_input_queue /= "Ingress"
    /\ Schedule(Self, next_input_queue) /= <<>>
    /\ LET Popped(peeked, popped) ==
               /\ popped.state.panicked = ""
               /\ peeked.msg /= NoMessage
               /\ peeked.msg = popped.msg
               /\ Schedule(peeked.state, next_input_queue) = <<>>
           Peeked(peeked) == Popped(peeked, pop_input(peeked.state))
       IN  Peeked(peek_input(Self))

(***************************************************************************)
(* C18: timing out a request of an output queue.                           *)
(***************************************************************************)
MaxPops == 8

\* the positions of the requests of output queues among dropped messages
ExpiredOutputRequests(dropped) ==
    {i \in 1..Len(dropped) :
        IdContext(dropped[i][1]) = "Outbound" /\ dropped[i][2].kind = "Request"}

\* msg is the reject response the spec describes for a timed out request
IsTimeoutResponseOf(msg, request) ==
    /\ msg.kind = "Response"
    /\ msg.receiver = request.sender
    /\ msg.sender = request.receiver
    /\ msg.callback = request.callback
    /\ msg.refund = request.payment
    /\ msg.deadline = request.deadline

\* where, in the input queues of s, a timeout response of the request is
\* enqueued: pairs of a sender and a position in the input queue from it
TimeoutResponsesOf(s, request) ==
    {e \in (DOMAIN s.canister_queues) \X (1..(2 * QueueCapacity)) :
        /\ e[2] <= QueueLen(InputQueue(s, e[1]))
        /\ PoolHas(s.pool, InputQueue(s, e[1]).queue[e[2]])
        /\ IsTimeoutResponseOf(s.pool.messages[InputQueue(s, e[1]).queue[e[2]]],
                               request)}

\* the messages that successive pop_input calls return
RECURSIVE PoppedMessages(_, _)
PoppedMessages(s, pops) ==
    LET Popped(r) ==
            IF r.msg = NoMessage THEN {}
            ELSE {r.msg} \cup PoppedMessages(r.state, pops - 1)
    IN  IF pops = 0 THEN {} ELSE Popped(pop_input(s))

\* the outcome r of time_out_messages in state s: every request it took
\* from an output queue is gone and answered once, in the input queue from
\* its receiver, and the count is that of the messages removed
TimedOutRequestsAnswered(s, r) ==
    /\ r.state.panicked = ""
    /\ r.ret = Len(r.dropped)
    /\ r.ret = Cardinality(DOMAIN s.pool.messages \ DOMAIN r.state.pool.messages)
    /\ \A i \in ExpiredOutputRequests(r.dropped) :
           LET id == r.dropped[i][1]
               request == r.dropped[i][2]
           IN  /\ ~PoolHas(r.state.pool, id)
               /\ PoolHas(s.pool, id)
               /\ TimeoutResponsesOf(s, request) = {}
               /\ Cardinality(TimeoutResponsesOf(r.state, request)) = 1
               /\ \A e \in TimeoutResponsesOf(r.state, request) :
                      e[1] = request.receiver
               /\ \E msg \in PoppedMessages(r.state, MaxPops) :
                      IsTimeoutResponseOf(msg, request)

\* a request pushed now is timed out at the time t exactly when its deadline,
\* or for a guaranteed one its lifetime, has passed in whole seconds
ExpiresWhenDue(request, t) ==
    LET due == IF request.deadline = NO_DEADLINE
               THEN CoarseTimeFloor(t) > CoarseTimeFloor(now + REQUEST_LIFETIME * 1000)
               ELSE request.deadline < CoarseTimeFloor(t)
        TimedOut(r) ==
            due <=> \E i \in ExpiredOutputRequests(r.dropped) :
                        r.dropped[i][2] = request
        Pushed1(r) ==
            r.ret = "Ok" =>
                TimedOut(time_out_messages(r.state, t, OwnCanisterId, LocalCanisters))
    IN  Pushed1(push_output_request(Self, request, now))

\* C18: when time_out_messages expires a request of an output queue (a
\* guaranteed one pushed at t with floor(now) > floor(t + REQUEST_LIFETIME), a
\* best-effort one with deadline < floor(now)), the request leaves the pool
\* and the output queue, exactly one reject response to it (originator the
\* request's sender, respondent its receiver, its callback, its payment as
\* refund, its deadline) is enqueued in the input queue from the receiver,
\* the returned count is the number of messages removed, and later pop_input
\* calls yield the response.
C18_TimeoutGeneratesRejectResponse ==
    Running =>
        /\ \A t \in {now} \cup Times :
               LET Called(r) == TimedOutRequestsAnswered(Self, r)
               IN  Called(time_out_messages(Self, t, OwnCanisterId, LocalCanisters))
        /\ \A request \in {o \in OutputRequests : o.callback \notin h_callbacks} :
               \A t \in {now, now + REQUEST_LIFETIME * 1000,
                         now + REQUEST_LIFETIME * 1000 + 1000} :
                   ExpiresWhenDue(request, t)

(***************************************************************************)
(* C19: guaranteed response memory reservations.                           *)
(***************************************************************************)
Reservations(s) == s.queue_stats.guaranteed_response_memory_reservations

\* 1 for a guaranteed request, that makes a reservation when accepted
Accepted(msg) ==
    IF msg.kind = "Request" /\ msg.deadline = NO_DEADLINE THEN 1 ELSE 0

\* 1 for a guaranteed response, that consumes a reservation when enqueued
Enqueued(msg) ==
    IF msg.kind = "Response" /\ msg.deadline = NO_DEADLINE THEN 1 ELSE 0

\* guaranteed requests among the messages dropped from output queues
DroppedGuaranteedOutputRequests(dropped) ==
    Cardinality({i \in ExpiredOutputRequests(dropped) :
                    dropped[i][2].deadline = NO_DEADLINE})

\* the operation that led from the state of the variables to the state s
\* changed the reservations by n
ReservationsChangedBy(s, n) ==
    s.panicked = "" =>
        /\ Reservations(s) >= 0
        /\ Reservations(s) - Reservations(Self) = n

\* C19: guaranteed_response_memory_reservations is the number of guaranteed
\* requests accepted (push_input, push_output_request,
\* reject_subnet_output_request) minus the number of guaranteed responses
\* enqueued (push_input, push_output_response, timeout rejects): it is zero
\* at first and every operation changes it by just that difference; it is
\* never negative, dropping a guaranteed request from an output queue takes
\* one through its timeout response, dropping a request from an input queue
\* leaves it as it is.
C19_MemoryReservationConsistency ==
    /\ Reservations(CanisterQueuesDefault(QueueCapacity)) = 0
    /\ Reservations(Self) >= 0
    /\ Running =>
        /\ \A msg \in InputRequests
                        \cup {response \in InputResponses :
                                 AnswersDeliveredCall(response)} :
               LET Called(r) ==
                       ReservationsChangedBy(r.state,
                           IF r.ret = "Ok" /\ r.state.pool /= pool
                           THEN Accepted(msg) - Enqueued(msg) ELSE 0)
               IN  Called(push_input(Self, msg, InputQueueTypeOf(msg.sender)))
        /\ \A request \in {o \in OutputRequests : o.callback \notin h_callbacks} :
               LET Called(r) ==
                       ReservationsChangedBy(r.state,
                           IF r.ret = "Ok" THEN Accepted(request) ELSE 0)
               IN  Called(push_output_request(Self, request, now))
        /\ \A request \in {o \in SubnetRequests : o.callback \notin h_callbacks} :
               LET Called(r) ==
                       ReservationsChangedBy(r.state,
                           IF r.ret = "Ok"
                           THEN Accepted(request)
                                - (IF request.deadline = NO_DEADLINE THEN 1 ELSE 0)
                           ELSE 0)
               IN  Called(reject_subnet_output_request(Self, request, SubnetIds))
        /\ \A call_context \in DOMAIN h_call_contexts :
               LET Called(response, s) ==
                       ReservationsChangedBy(s, 0 - Enqueued(response))
                   Responded(response) ==
                       Called(response, push_output_response(Self, response))
               IN  Responded(OutputResponse(call_context[1], call_context[2]))
        /\ LET Called(msg, r) ==
                   ReservationsChangedBy(r.state,
                       IF r.ret = "Ok"
                          /\ r.state.pool.message_id_generator
                                 /= pool.message_id_generator
                       THEN Accepted(msg) - Enqueued(msg) ELSE 0)
           IN  Called(peek_output(Self, OwnCanisterId),
                      induct_message_to_self(Self, OwnCanisterId))
        /\ \A t \in {now} \cup Times :
               LET Called(r) ==
                       ReservationsChangedBy(r.state,
                           0 - DroppedGuaranteedOutputRequests(r.dropped))
               IN  Called(time_out_messages(Self, t, OwnCanisterId, LocalCanisters))
        /\ LET Called(r) ==
                   ReservationsChangedBy(r.state,
                       0 - DroppedGuaranteedOutputRequests(r.dropped))
           IN  Called(shed_largest_message(Self, OwnCanisterId, LocalCanisters))
        /\ ReservationsChangedBy(pop_input(Self).state, 0)
        /\ ReservationsChangedBy(garbage_collect(Self), 0)

(***************************************************************************)
(* C20: nothing expired is left behind.                                    *)
(***************************************************************************)
\* the times at which expiration is tried: the clock, its later values and
\* one between the deadlines of best-effort and of guaranteed requests
ExpirationTimes == {now, 6000} \cup Times

\* the head of the deadline heap is due at t and its message is gone
StaleHeadDue(t) ==
    /\ has_expired_deadlines(pool, t)
    /\ ~PoolHas(pool, DeadlinePeek(pool.deadline_queue)[2])

\* C20: right after expire_messages(t), and after time_out_messages(t),
\* has_expired_deadlines(t) is false, also when the head of the deadline heap
\* was the entry of a message that had been taken before.
C20_ExpirationCompleteness ==
    Running =>
        \A t \in ExpirationTimes :
            /\ ~has_expired_deadlines(expire_messages(pool, t).pool, t)
            /\ LET Called(r) ==
                       r.state.panicked = "" =>
                           ~has_expired_deadlines(r.state.pool, t)
               IN  Called(time_out_messages(Self, t, OwnCanisterId, LocalCanisters))

\* C20, witness: the head of the deadline heap is a stale entry that is due,
\* a live message behind it is due as well, and time_out_messages leaves
\* nothing due.
C20_StaleHeadExpired ==
    /\ Running
    /\ \E t \in ExpirationTimes :
           /\ StaleHeadDue(t)
           /\ LET Called(r) ==
                      /\ r.state.panicked = ""
                      /\ r.ret >= 1
                      /\ ~has_expired_deadlines(r.state.pool, t)
              IN  Called(time_out_messages(Self, t, OwnCanisterId, LocalCanisters))

(***************************************************************************)
(* C21: guaranteed response messages are not shed.                         *)
(***************************************************************************)
\* the ids of the guaranteed response messages of a pool
GuaranteedIds(p) == {id \in DOMAIN p.messages : p.messages[id].deadline = NO_DEADLINE}

\* shed is the outcome of shed_largest_message on the pool: the message it
\* removed, if any, is a best-effort one and the guaranteed ones are all there
ShedsBestEffortOnly(shed) ==
    /\ shed.msg /= NoMessage => shed.msg.deadline /= NO_DEADLINE
    /\ \A id \in GuaranteedIds(pool) :
           PoolHas(shed.pool, id) /\ shed.pool.messages[id] = pool.messages[id]

\* C21 as stated: shed_largest_message never removes a message with the zero
\* deadline, and on a pool of guaranteed response messages only it returns
\* nothing and leaves the pool unchanged.
C21_GuaranteedNeverShed ==
    LET Called(shed) ==
            /\ ShedsBestEffortOnly(shed)
            /\ GuaranteedIds(pool) = DOMAIN pool.messages =>
                   shed.id = NoId /\ shed.pool = pool
    IN  Called(pool_shed_largest_message(pool))

\* C21, amended: shed_largest_message never removes a message with the zero
\* deadline; on a pool of guaranteed response messages only it returns
\* nothing and leaves messages, stats, id generator and deadline heap as they
\* were, while the size heap loses the entries of messages taken before.
C21_GuaranteedMessagesKept ==
    LET Called(shed) ==
            /\ ShedsBestEffortOnly(shed)
            /\ GuaranteedIds(pool) = DOMAIN pool.messages =>
                   /\ shed.id = NoId
                   /\ shed.msg = NoMessage
                   /\ shed.pool = [pool EXCEPT !.size_queue = {}]
    IN  Called(pool_shed_largest_message(pool))

\* C21, witness: the pool holds guaranteed response messages only, the size
\* heap still has the entry of a best-effort message taken before, and
\* shed_largest_message returns nothing.
C21_OnlyGuaranteedLeft ==
    /\ panicked = ""
    /\ DOMAIN pool.messages /= {}
    /\ GuaranteedIds(pool) = DOMAIN pool.messages
    /\ pool.size_queue /= {}
    /\ pool_shed_largest_message(pool).id = NoId

(***************************************************************************)
(* C22: garbage_collect on queues that hold nothing.                       *)
(***************************************************************************)
\* C22: after garbage_collect, if no queue pair remains and the ingress queue
\* is empty, the CanisterQueues value is the default one: empty schedules,
\* input_schedule_canisters and callback set, zero QueueStats, the default
\* cursor and the default pool.
C22_GarbageCollectionReset ==
    Running =>
        LET Collected(s) ==
                (/\ s.panicked = ""
                 /\ DOMAIN s.canister_queues = {}
                 /\ ingress_is_empty(s.ingress_queue)) =>
                    s = CanisterQueuesDefault(default_queue_capacity)
        IN  Collected(garbage_collect(Self))


\* the fields of a CanisterQueues value that serialization keeps: all but
\* the transient byte count of guaranteed responses in streams
Persistent(s) ==
    [s EXCEPT !.queue_stats.transient_stream_guaranteed_responses_size_bytes = 0]

\* C23: in every reachable state, converting the queues to the serialized
\* record and reconstructing them succeeds and gives back the same queues,
\* pool, schedules, input_schedule_canisters, cursor, callback set and
\* reservation counters, so that pop_input returns the same messages
C23_RoundTrip ==
    Running =>
        LET Restored(r) ==
                /\ r.ok
                /\ r.state = Persistent(Self)
                /\ PoppedMessages(r.state, MaxPops) = PoppedMessages(Self, MaxPops)
        IN  Restored(decode(encode(Self), default_queue_capacity))

\* skip_input calls made on one loop detector
MaxSkips == 4

\* the states and the detector after each of n successive skip_input calls
\* on s with a fresh detector: a sequence of [state, loop_detector, source],
\* source being the one the call was applied to
RECURSIVE SkipRun(_, _, _)
SkipRun(s, loop_detector, n) ==
    IF n = 0 \/ s.panicked /= "" THEN <<>>
    ELSE LET Skipped(next, counted) ==
                 <<[state |-> next, loop_detector |-> counted,
                    source |-> s.next_input_queue]>>
                     \o SkipRun(next, counted, n - 1)
         IN  Skipped(skip_input(s), skip_input_count(loop_detector, s.next_input_queue))

\* skip_input calls among the first n of a run that were applied to the source
SkipsApplied(run, n, source) ==
    Cardinality({i \in 1..n : run[i].source = source})

ScheduleLength(s, source) ==
    IF source = "Ingress" THEN ingress_schedule_size(s.ingress_queue)
    ELSE Len(Schedule(s, source))

\* C24: after any number of skip_input calls on a fresh detector,
\* detected_loop() is true only if every source has an empty schedule or
\* was skipped at least as often as its schedule is long; and on a fresh
\* detector detected_loop() being true implies that pop_input() returns None
C24_LoopDetectorSoundness ==
    Running =>
        LET Sound(run) ==
                \A n \in 1..Len(run) :
                    (run[n].state.panicked = ""
                     /\ detected_loop(run[n].loop_detector, run[n].state)) =>
                        \A source \in {"LocalSubnet", "Ingress", "RemoteSubnet"} :
                            \/ ScheduleLength(run[n].state, source) = 0
                            \/ SkipsApplied(run, n, source)
                                   >= ScheduleLength(run[n].state, source)
            Fresh(popped) ==
                detected_loop(CanisterQueuesLoopDetectorDefault, Self) =>
                    popped.msg = NoMessage
        IN  /\ Sound(SkipRun(Self, CanisterQueuesLoopDetectorDefault, MaxSkips))
            /\ Fresh(pop_input(Self))

\* C24 witness: with a message in every source, the third skip_input call
\* on a fresh detector makes it report a loop, not the second
C24_LoopAfterSkippingAll ==
    /\ Running
    /\ LET Looped(run) ==
                /\ Len(run) >= 3
                /\ run[3].state.panicked = ""
                /\ detected_loop(run[3].loop_detector, run[3].state)
                /\ \A source \in {"LocalSubnet", "Ingress", "RemoteSubnet"} :
                       ScheduleLength(run[3].state, source) > 0
                /\ ~detected_loop(run[2].loop_detector, run[2].state)
       IN  Looped(SkipRun(Self, CanisterQueuesLoopDetectorDefault, MaxSkips))
    /\ has_input(Self)

\* the outcome r of induct_message_to_self(own) in state s: the head of the
\* output queue to own has left the pool and the queue, and the same message
\* is the last of the input queue from own under a new inbound id
InductedToSelf(s, r, own) ==
    LET id == QueuePeek(OutputQueue(s, own))
        msg == peek_output(s, own)
        input_queue == InputQueue(r.state, own).queue
        output_queue == OutputQueue(r.state, own).queue
    IN  /\ msg /= NoMessage
        /\ ~PoolHas(r.state.pool, id)
        /\ \A other \in DOMAIN s.pool.messages \ {id} :
               /\ PoolHas(r.state.pool, other)
               /\ r.state.pool.messages[other] = s.pool.messages[other]
        /\ Cardinality(DOMAIN r.state.pool.messages) = Cardinality(DOMAIN s.pool.messages)
        /\ \E k \in 1..Len(OutputQueue(s, own).queue) :
               output_queue = SubSeq(OutputQueue(s, own).queue, k + 1,
                                     Len(OutputQueue(s, own).queue))
        /\ id \notin Range(output_queue)
        /\ Len(input_queue) = Len(InputQueue(s, own).queue) + 1
        /\ SubSeq(input_queue, 1, Len(input_queue) - 1) = InputQueue(s, own).queue
        /\ IdContext(input_queue[Len(input_queue)]) = "Inbound"
        /\ PoolGet(r.state.pool, input_queue[Len(input_queue)]) = msg
        /\ r.state.pool.message_stats.outbound_message_count
               = s.pool.message_stats.outbound_message_count - 1
        /\ r.state.pool.message_stats.inbound_message_count
               = s.pool.message_stats.inbound_message_count + 1

BoundaryTimes ==
    UNION {{e[1] * 1000, e[1] * 1000 + 500, (e[1] + 1) * 1000} : e \in pool.deadline_queue}

\* the resident messages of the pool p with a deadline-heap entry before
\* the second of time t
DueAt(p, t) ==
    {e[2] : e \in {e \in p.deadline_queue :
                      e[1] < CoarseTimeFloor(t) /\ PoolHas(p, e[2])}}

\* C26: expire_messages(now) removes and returns exactly the resident
\* messages with a deadline-heap entry strictly before floor_seconds(now):
\* a message with deadline d stays, unreported by has_expired_deadlines, at
\* d seconds and at d + 0.5 seconds, and is removed at d + 1 seconds
C26_StrictExpirationBoundary ==
    panicked = "" =>
        \A t \in BoundaryTimes \cup {now} :
            LET Expired(r) ==
                    /\ PoolIds(r.expired) = DueAt(pool, t)
                    /\ Len(r.expired) = Cardinality(DueAt(pool, t))
                    /\ \A i \in 1..Len(r.expired) :
                           r.expired[i][2] = pool.messages[r.expired[i][1]]
                    /\ DOMAIN r.pool.messages = DOMAIN pool.messages \ DueAt(pool, t)
                    /\ \A id \in DOMAIN r.pool.messages :
                           r.pool.messages[id] = pool.messages[id]
                    /\ has_expired_deadlines(pool, t) <=>
                           \E e \in pool.deadline_queue : e[1] < CoarseTimeFloor(t)
            IN  Expired(expire_messages(pool, t))

\* C26 witness: a resident message with deadline d that expire_messages
\* keeps at d + 0.5 seconds and removes at d + 1 seconds
C26_KeptThenExpired ==
    /\ panicked = ""
    /\ \E e \in pool.deadline_queue :
           /\ PoolHas(pool, e[2])
           /\ ~has_expired_deadlines(pool, e[1] * 1000 + 500)
           /\ PoolHas(expire_messages(pool, e[1] * 1000 + 500).pool, e[2])
           /\ has_expired_deadlines(pool, (e[1] + 1) * 1000)
           /\ ~PoolHas(expire_messages(pool, (e[1] + 1) * 1000).pool, e[2])

\* a time after every deadline of the model, in milliseconds: two request
\* lifetimes after the latest clock
FarFuture == 400000 + 2 * REQUEST_LIFETIME * 1000

\* whether a message with this id is of a class that can expire: a
\* best-effort inbound request, an outbound request, a best-effort outbound
\* response
CanExpire(id) ==
    \/ IdContext(id) = "Inbound" /\ IdKind(id) = "Request" /\ IdClass(id) = "BestEffort"
    \/ IdContext(id) = "Outbound" /\ IdKind(id) = "Request"
    \/ IdContext(id) = "Outbound" /\ IdKind(id) = "Response" /\ IdClass(id) = "BestEffort"

\* what was removed between the pools before and after are the ids
\* `expired`, all of an expiring class, and every message of another class
\* is still there
OnlyExpiringRemoved(before, after, expired) ==
    /\ \A i \in 1..Len(expired) :
           /\ CanExpire(expired[i][1])
           /\ PoolHas(before, expired[i][1])
           /\ IdKind(expired[i][1]) = expired[i][2].kind
           /\ IdClass(expired[i][1]) = ClassOf(expired[i][2])
    /\ \A id \in DOMAIN before.messages :
           ~CanExpire(id) => /\ PoolHas(after, id)
                             /\ after.messages[id] = before.messages[id]

\* C27: at no time does expire_messages or time_out_messages remove an
\* inbound response, an inbound guaranteed request or an outbound guaranteed
\* response; what they remove are best-effort inbound requests, outbound
\* requests and best-effort outbound responses, and far enough in the
\* future expire_messages removes all of those
C27_NonExpiringClasses ==
    panicked = "" =>
        \A t \in ExpirationTimes \cup {FarFuture} :
            LET Expired(r) ==
                    /\ OnlyExpiringRemoved(pool, r.pool, r.expired)
                    /\ t = FarFuture =>
                           PoolIds(r.expired) = {id \in DOMAIN pool.messages : CanExpire(id)}
                TimedOut(r) ==
                    r.state.panicked = "" =>
                        OnlyExpiringRemoved(pool, r.state.pool, r.dropped)
            IN  /\ Expired(expire_messages(pool, t))
                /\ (DOMAIN canister_queues /= {} /\ ~iter.active) =>
                       TimedOut(time_out_messages(Self, t, OwnCanisterId, LocalCanisters))

\* C27 witness: the pool holds a best-effort response in an input queue,
\* its deadline past, and an outbound request; time_out_messages far in the
\* future removes the request and keeps the response
C27_ResponseOutlivesDeadline ==
    /\ Running
    /\ \E id \in DOMAIN pool.messages :
           /\ IdContext(id) = "Inbound" /\ IdKind(id) = "Response"
           /\ IdClass(id) = "BestEffort"
           /\ pool.messages[id].deadline < CoarseTimeFloor(FarFuture)
    /\ LET TimedOut(r) ==
               /\ r.state.panicked = ""
               /\ r.ret > 0
       IN  TimedOut(time_out_messages(Self, FarFuture, OwnCanisterId, LocalCanisters))

\* the best-effort messages resident in the pool p
BestEffortIds(p) == {id \in DOMAIN p.messages : IsBestEffort(p.messages[id])}

\* C28: shed_largest_message removes and returns a best-effort message of
\* the largest byte size among the best-effort messages resident in the
\* pool, whatever entries of taken messages the size heap still holds, and
\* returns None if and only if the pool holds no best-effort message
C28_ShedsLargestBestEffort ==
    panicked = "" =>
        LET Shed(r) ==
                /\ r.id = NoId <=> BestEffortIds(pool) = {}
                /\ r.id = NoId => r.msg = NoMessage /\ r.pool.messages = pool.messages
                /\ r.id /= NoId =>
                       /\ r.id \in BestEffortIds(pool)
                       /\ r.msg = pool.messages[r.id]
                       /\ \A id \in BestEffortIds(pool) :
                              pool.messages[id].size_bytes <= r.msg.size_bytes
                       /\ DOMAIN r.pool.messages = DOMAIN pool.messages \ {r.id}
                       /\ \A id \in DOMAIN r.pool.messages :
                              r.pool.messages[id] = pool.messages[id]
        IN  Shed(pool_shed_largest_message(pool))

\* C28 witness: the size heap holds the entry of a taken message larger
\* than every resident one, and a smaller best-effort message is shed
C28_ShedPastTakenMessage ==
    /\ panicked = ""
    /\ LET Shed(r) ==
               /\ r.id /= NoId
               /\ \E e \in pool.size_queue :
                      ~PoolHas(pool, e[2]) /\ e[1] > r.msg.size_bytes
       IN  Shed(pool_shed_largest_message(pool))

\* C29: after every pool operation the deadline heap and the size heap
\* each hold at most 2 * pool.len() + 2 entries, and both are empty whenever
\* the pool is empty
C29_BoundedHeaps ==
    panicked = "" =>
        /\ Cardinality(pool.deadline_queue) <= 2 * PoolLen(pool) + 2
        /\ Cardinality(pool.size_queue) <= 2 * PoolLen(pool) + 2
        /\ PoolLen(pool) = 0 => pool.deadline_queue = {} /\ pool.size_queue = {}

\* C29 witness: the deadline heap holds more entries than the bound allows
\* for one message less, and taking one of the resident messages, not the
\* last one, prunes it
C29_TakePrunes ==
    /\ panicked = ""
    /\ PoolLen(pool) > 1
    /\ Cardinality(pool.deadline_queue) > 2 * (PoolLen(pool) - 1) + 2
    /\ \E id \in DOMAIN pool.messages :
           Cardinality(PoolTake(pool, id).pool.deadline_queue)
               < Cardinality(pool.deadline_queue)

\* the times at which an insertion is tried: the clock, 13.5 seconds and
\* just short of one second, in milliseconds
InsertTimes == {now, 13500, 999}

\* the deadlines the deadline heap of the pool p records for the id
DeadlinesOf(p, id) == {e[1] : e \in {e \in p.deadline_queue : e[2] = id}}

\* C30: insert_outbound_request at time t records, for a guaranteed
\* request, the deadline floor_seconds(t + 300 s) in the deadline heap
\* (313 s for t = 13.5 s) and no size-heap entry; for a best-effort
\* request it records the deadline of the request, whatever t
C30_DerivedDeadline ==
    panicked = "" =>
        \A t \in InsertTimes, request \in PoolRequests :
            LET Inserted(r) ==
                    /\ ~r.panic
                    /\ r.pool.messages[r.id] = request
                    /\ request.deadline = NO_DEADLINE =>
                           /\ DeadlinesOf(r.pool, r.id)
                                  = {(t + REQUEST_LIFETIME * 1000) \div 1000}
                           /\ t = 13500 => DeadlinesOf(r.pool, r.id) = {313}
                           /\ \A e \in r.pool.size_queue : e[2] /= r.id
                    /\ request.deadline /= NO_DEADLINE =>
                           /\ DeadlinesOf(r.pool, r.id) = {request.deadline}
                           /\ <<request.size_bytes, r.id>> \in r.pool.size_queue
                    /\ r.pool.deadline_queue \ pool.deadline_queue
                           = {<<d, r.id>> : d \in DeadlinesOf(r.pool, r.id)}
            IN  Inserted(insert_outbound_request(pool, request, t))

\* C30 witness: the pool holds a guaranteed request inserted into an
\* output queue after the clock was advanced, its recorded deadline 300
\* seconds after the clock
C30_GuaranteedRequestInserted ==
    /\ panicked = ""
    /\ now > 0
    /\ \E e \in pool.deadline_queue :
           /\ PoolHas(pool, e[2])
           /\ IdContext(e[2]) = "Outbound" /\ IdKind(e[2]) = "Request"
           /\ pool.messages[e[2]].deadline = NO_DEADLINE
           /\ e[1] = CoarseTimeFloor(now) + REQUEST_LIFETIME

\* a queue with no enqueued item and no reserved slot
Idle(q) == Len(q.queue) = 0 /\ q.reserved_slots = 0

\* C31: garbage_collect() removes the queue pair of a peer if and only if
\* neither its input nor its output queue holds an item or a reserved slot;
\* every other pair is retained as it was, and no resident message and no
\* reservation is lost
C31_GarbageCollectIdlePairs ==
    Running =>
        LET Collected(g) ==
                /\ g.panicked = ""
                /\ DOMAIN g.canister_queues =
                       {c \in DOMAIN canister_queues :
                           ~(Idle(canister_queues[c][1]) /\ Idle(canister_queues[c][2]))}
                /\ \A c \in DOMAIN g.canister_queues :
                       g.canister_queues[c] = canister_queues[c]
                /\ g.pool.messages = pool.messages
                /\ g.pool.message_stats = pool.message_stats
                /\ g.queue_stats = queue_stats
                /\ g.ingress_queue = ingress_queue
                /\ g.callbacks_with_enqueued_response = callbacks_with_enqueued_response
        IN  Collected(garbage_collect(Self))

\* C31 witness: one pair is idle, another holds nothing but a reserved slot
C31_IdleAndReservedPairs ==
    /\ Running
    /\ \E c \in DOMAIN canister_queues :
           Idle(canister_queues[c][1]) /\ Idle(canister_queues[c][2])
    /\ \E c \in DOMAIN canister_queues :
           /\ Len(canister_queues[c][1].queue) = 0
           /\ Len(canister_queues[c][2].queue) = 0
           /\ canister_queues[c][1].reserved_slots + canister_queues[c][2].reserved_slots > 0
           /\ c \in DOMAIN garbage_collect(Self).canister_queues

\* the messages that successive pop calls of the iterator it return in
\* state s, and the state they leave: [state, msgs]
RECURSIVE DrainIter(_, _, _)
DrainIter(s, it, msgs) ==
    LET Popped(r) ==
            IF r.msg = NoMessage THEN [state |-> r.state, msgs |-> msgs]
            ELSE DrainIter(r.state, r.iter, Append(msgs, r.msg))
    IN  IF it.queues = <<>> THEN [state |-> s, msgs |-> msgs]
        ELSE Popped(iter_pop(s, it))

\* the references in the output queues that the iterator it still visits
ReferencesLeft(it) ==
    {e \in Range(it.queues) \X (1..(2 * QueueCapacity)) :
        e[2] <= Len(canister_queues[e[1]][2].queue)}

\* C32: the size of the output iterator is the summed length of the queues
\* still in the iteration and bounds the messages it still yields;
\* exclude_queue() lowers it by the length of the excluded queue, and no
\* later pop returns a message of the excluded queue, which keeps its
\* messages
C32_ExcludeQueueKeepsMessages ==
    (panicked = "" /\ iter.active) =>
        LET excluded == Head(iter.queues)
            Drained(r) ==
                /\ r.state.panicked = ""
                /\ Len(r.msgs) <= iter.size
            DrainedWithout(it, r) ==
                /\ it.size = iter.size - Len(canister_queues[excluded][2].queue)
                /\ excluded \notin Range(it.queues)
                /\ it.size = Cardinality(ReferencesLeft(it))
                /\ r.state.panicked = ""
                /\ Len(r.msgs) <= it.size
                /\ \A i \in 1..Len(r.msgs) : r.msgs[i].receiver /= excluded
                /\ r.state.canister_queues[excluded][2] = canister_queues[excluded][2]
                /\ \A id \in Range(canister_queues[excluded][2].queue) :
                       PoolHas(pool, id) =>
                           PoolGet(r.state.pool, id) = pool.messages[id]
            Excluded(it) == DrainedWithout(it, DrainIter(Self, it, <<>>))
        IN  /\ iter.size = Cardinality(ReferencesLeft(iter))
            /\ Drained(DrainIter(Self, iter, <<>>))
            /\ iter.queues /= <<>> => Excluded(iter_exclude_queue(Self, iter))

\* C32 witness: the iterator visits two queues, the first with a stale
\* reference behind its head; excluding it leaves the other queue to pop
C32_ExcludeFirstOfTwo ==
    /\ panicked = ""
    /\ iter.active
    /\ Len(iter.queues) = 2
    /\ \E id \in Range(canister_queues[Head(iter.queues)][2].queue) : ~PoolHas(pool, id)
    /\ Len(DrainIter(Self, iter_exclude_queue(Self, iter), <<>>).msgs) = 1

\* how many messages of each output queue the function f of
\* output_queues_for_each accepts before it first returns Err
AcceptCounts == [AllCanisters -> 0..2]

\* the positions of the resident messages in the output queue to c
ResidentPositions(c) ==
    {i \in 1..Len(canister_queues[c][2].queue) :
        PoolHas(pool, canister_queues[c][2].queue[i])}

\* the positions, in the output queue to c, of the first n resident messages
AcceptedPositions(c, n) ==
    {i \in ResidentPositions(c) :
        Cardinality({j \in ResidentPositions(c) : j < i}) < n}

\* the position of the first message that f rejects in the output queue to
\* c, one past the end if it rejects none
FirstRejected(c, n) ==
    LET rejected == ResidentPositions(c) \ AcceptedPositions(c, n)
    IN  IF rejected = {} THEN Len(canister_queues[c][2].queue) + 1
        ELSE CHOOSE i \in rejected : \A j \in rejected : i <= j

\* C33: output_queues_for_each applies f to the resident messages of each
\* output queue in FIFO order until f first returns Err: exactly the
\* accepted messages leave the pool and the queue, the first rejected
\* message and everything behind it stay in order, and every output queue
\* is left empty or with a resident head
C33_ForEachConsumesPrefix ==
    Running =>
        \A accept \in AcceptCounts :
            LET Taken(c) ==
                    {canister_queues[c][2].queue[i] : i \in AcceptedPositions(c, accept[c])}
                Done(s) ==
                    /\ s.panicked = ""
                    /\ DOMAIN s.canister_queues = DOMAIN canister_queues
                    /\ \A c \in DOMAIN canister_queues :
                           /\ s.canister_queues[c][1] = canister_queues[c][1]
                           /\ s.canister_queues[c][2].queue =
                                  SubSeq(canister_queues[c][2].queue,
                                         FirstRejected(c, accept[c]),
                                         Len(canister_queues[c][2].queue))
                           /\ s.canister_queues[c][2].reserved_slots
                                  = canister_queues[c][2].reserved_slots
                           /\ canister_queue_ok(s.canister_queues[c][2], s.pool)
                    /\ DOMAIN s.pool.messages =
                           DOMAIN pool.messages
                               \ UNION {Taken(c) : c \in DOMAIN canister_queues}
                    /\ \A id \in DOMAIN s.pool.messages :
                           s.pool.messages[id] = pool.messages[id]
            IN  Done(output_queues_for_each(Self, accept))

\* C33 witness: an output queue holds two messages and another one holds a
\* message; f accepts one message of each queue, the second message of the
\* first queue stays at its head and the other queue is emptied
C33_SecondMessageStays ==
    /\ Running
    /\ \E c, d \in DOMAIN canister_queues :
           /\ c /= d
           /\ ResidentPositions(c) = {1, 2}
           /\ ResidentPositions(d) = {1}
           /\ output_queues_for_each(Self, [x \in AllCanisters |-> 1])
                  .canister_queues[c][2].queue = <<canister_queues[c][2].queue[2]>>

\* the results of n successive push_output_request calls of one request in
\* state s: a sequence of return values
RECURSIVE PushResults(_, _, _)
PushResults(s, request, n) ==
    LET Pushed1(r) ==
            IF r.state.panicked /= "" THEN <<"Panic">>
            ELSE <<r.ret>> \o PushResults(r.state, request, n - 1)
    IN  IF n = 0 THEN <<>> ELSE Pushed1(push_output_request(s, request, now))

\* C34: for every peer with a queue pair, available_output_request_slots
\* gives the smaller of the free response slots of the input queue from the
\* peer and the free request slots of the output queue to it; that many
\* push_output_request calls to the peer succeed, one after the other, and
\* the next returns QueueFull
C34_AvailableSlotsPredictPushes ==
    Running =>
        \A c \in DOMAIN canister_queues, d \in Deadlines :
            LET n == available_output_request_slots(Self)[c]
                free_response_slots ==
                    canister_queues[c][1].capacity - canister_queues[c][1].reserved_slots
                        - EnqueuedResponses(canister_queues[c][1])
                free_request_slots ==
                    canister_queues[c][2].capacity - EnqueuedRequests(canister_queues[c][2])
                Predicted(results) ==
                    /\ \A i \in 1..n : results[i] = "Ok"
                    /\ results[n + 1] = "QueueFull"
            IN  /\ n >= 0
                /\ n <= free_response_slots /\ n <= free_request_slots
                /\ n = free_response_slots \/ n = free_request_slots
                /\ Predicted(PushResults(Self, Request(OwnCanisterId, c, 1, d, RequestSize),
                                         n + 1))

\* C34 witness: one more request can be pushed to a peer although its
\* output queue is empty, the input queue from it having one free
\* response slot
C34_LimitedByInputQueue ==
    /\ Running
    /\ \E c \in DOMAIN canister_queues :
           /\ available_output_request_slots(Self)[c] = 1
           /\ canister_queues[c][2].queue = <<>>
           /\ canister_queues[c][2].capacity > 1

\* the requests reject_subnet_output_request is called with: calls of the
\* canister to the management canister, of either class
RejectedRequests ==
    {Request(OwnCanisterId, IC_00, cb, d, RequestSize) : cb \in Callbacks, d \in Deadlines}

\* the reject response of a request, as reject_subnet_output_request builds it
RejectResponseOf(request) ==
    [Response(request.receiver, request.sender, request.callback, request.deadline,
              1, "Reject") EXCEPT !.refund = request.payment]

\* what reject_subnet_output_request has to have done to s when it returned
\* Ok with the state t
RejectInducted(s, t, request) ==
    LET receiver == request.receiver
        before == get_or_insert_queues(s, receiver)
        old_queue == InputQueue(before, receiver)
        new_queue == InputQueue(t, receiver)
        added == new_queue.queue[Len(new_queue.queue)]
    IN  /\ t.panicked = ""
        /\ Len(new_queue.queue) = Len(old_queue.queue) + 1
        /\ SubSeq(new_queue.queue, 1, Len(old_queue.queue)) = old_queue.queue
        /\ ~PoolHas(s.pool, added)
        /\ PoolHas(t.pool, added)
        /\ PoolGet(t.pool, added) = RejectResponseOf(request)
        /\ PoolLen(t.pool) = PoolLen(s.pool) + 1
        /\ \A c \in DOMAIN t.canister_queues :
               /\ c \in DOMAIN before.canister_queues
               /\ OutputQueue(t, c) = OutputQueue(before, c)
               /\ c /= receiver => InputQueue(t, c) = InputQueue(before, c)
        /\ new_queue.reserved_slots = old_queue.reserved_slots
        /\ t.queue_stats.guaranteed_response_memory_reservations
               = s.queue_stats.guaranteed_response_memory_reservations
        /\ receiver \notin s.input_schedule_canisters =>
               /\ receiver \in t.input_schedule_canisters
               /\ t.local_subnet_input_schedule
                      = PushBack(s.local_subnet_input_schedule, receiver)

\* C35: whenever reject_subnet_output_request returns Ok, one reject response
\* with the callback id, the payment (as refund) and the deadline of the
\* request has been enqueued at the back of the input queue from the
\* receiver, no output queue has changed, the reserved slots of that input
\* queue and the guaranteed-response memory reservations are what they were,
\* and a receiver that was not scheduled is at the back of the local-subnet
\* schedule
C35_RejectInductedDirectly ==
    Running =>
        \A request \in RejectedRequests :
            LET Called(r) == r.ret = "Ok" => RejectInducted(Self, r.state, request)
            IN  request.callback \notin h_callbacks =>
                    Called(reject_subnet_output_request(Self, request, SubnetIds))

\* the same for the calls whose callback id has no response enqueued
C35_RejectOfUnansweredCallback ==
    Running =>
        \A request \in RejectedRequests :
            LET Called(r) == r.ret = "Ok" => RejectInducted(Self, r.state, request)
            IN  request.callback \notin callbacks_with_enqueued_response =>
                    Called(reject_subnet_output_request(Self, request, SubnetIds))

\* C36: no input is stranded: has_input() is true if and only if pop_input()
\* returns a message, so a message enqueued in an input queue stays within
\* reach of pop_input until it is popped, expires or is shed
C36_NoStrandedInput ==
    Running =>
        LET Called(r) ==
                /\ r.state.panicked = ""
                /\ has_input(Self) <=> r.msg /= NoMessage
        IN  Called(pop_input(Self))

\* the same in the states whose schedules list every sender recorded in
\* input_schedule_canisters
C36_NoStrandedInputWhenScheduled ==
    (/\ Running
     /\ input_schedule_canisters =
            Range(local_subnet_input_schedule) \cup Range(remote_subnet_input_schedule)) =>
        LET Called(r) ==
                /\ r.state.panicked = ""
                /\ has_input(Self) <=> r.msg /= NoMessage
        IN  Called(pop_input(Self))

\* the schedule of the source the cursor of s is on (none for the ingress queue)
CurrentSchedule(s) ==
    IF s.next_input_queue = "Ingress" THEN <<>> ELSE Schedule(s, s.next_input_queue)

\* what skip_input has to have done to s when it left the state t
Skipped(s, t) ==
    LET old == CurrentSchedule(s)
        new == IF s.next_input_queue = "Ingress" THEN <<>>
               ELSE Schedule(t, s.next_input_queue)
        counted == skip_input_count(CanisterQueuesLoopDetectorDefault, s.next_input_queue)
    IN  /\ t.panicked = ""
        /\ t.next_input_queue = NextInputQueueAfter(s.next_input_queue)
        /\ old /= <<>> =>
               \/ new = Tail(old) \o <<Head(old)>>
               \/ new = Tail(old)
        /\ old = <<>> => new = <<>>
        /\ counted.local_queue_skip_count + counted.remote_queue_skip_count
               + counted.ingress_queue_skip_count = 1
        /\ t.canister_queues = s.canister_queues
        /\ t.pool = s.pool

\* C37: skip_input never aborts: in every reachable state, also when
\* garbage_collect has removed the queue pair of a sender that is still in
\* an input schedule, it rotates or prunes the head entry of the schedule
\* of the current source, counts one skip of that source and moves the
\* cursor to the next source
C37_SkipInputNeverAborts ==
    Running => Skipped(Self, skip_input(Self))

\* the same in the states in which every scheduled sender has a queue pair
C37_SkipInputOfExistingSender ==
    (/\ Running
     /\ Range(local_subnet_input_schedule) \cup Range(remote_subnet_input_schedule)
            \subseteq DOMAIN canister_queues
     /\ Range(local_subnet_input_schedule) \cup Range(remote_subnet_input_schedule)
            \subseteq input_schedule_canisters) =>
        Skipped(Self, skip_input(Self))

\* the assertion of on_message_dropped on the callback id of a timeout response
CallbackAssertion == "on_message_dropped: callback already has a response"

\* C38: the callback id of the timeout response that time_out_messages or
\* shed_largest_message generates for a request dropped from an output queue
\* is never in callbacks_with_enqueued_response already, so the assertion on
\* its insertion never fires, whatever responses the peer has pushed
C38_TimeoutCallbackAssertionHolds ==
    /\ panicked /= CallbackAssertion
    /\ Running =>
           /\ \A t \in {now} \cup Times :
                  time_out_messages(Self, t, OwnCanisterId, LocalCanisters).state.panicked
                      /= CallbackAssertion
           /\ shed_largest_message(Self, OwnCanisterId, LocalCanisters).state.panicked
                  /= CallbackAssertion

\* the same in the states in which no callback id with an enqueued response
\* is the callback id of a request in an output queue
C38_AssertionHoldsForUnansweredRequests ==
    (/\ Running
     /\ \A id \in DOMAIN pool.messages :
            (IdContext(id) = "Outbound" /\ pool.messages[id].kind = "Request") =>
                pool.messages[id].callback \notin callbacks_with_enqueued_response) =>
        /\ \A t \in {now} \cup Times :
               time_out_messages(Self, t, OwnCanisterId, LocalCanisters).state.panicked
                   /= CallbackAssertion
        /\ shed_largest_message(Self, OwnCanisterId, LocalCanisters).state.panicked
               /= CallbackAssertion

\* what a failed reject_subnet_output_request has to have left of s in the
\* state t
RejectLeftNoTrace(s, t, request) ==
    LET before == get_or_insert_queues(s, request.receiver)
    IN  /\ t.panicked = ""
        /\ InputQueue(t, request.receiver).reserved_slots
               = InputQueue(before, request.receiver).reserved_slots
        /\ t.queue_stats = s.queue_stats
        /\ t.pool = s.pool
        /\ t.local_subnet_input_schedule = s.local_subnet_input_schedule
        /\ t.remote_subnet_input_schedule = s.remote_subnet_input_schedule
        /\ t.input_schedule_canisters = s.input_schedule_canisters
        /\ t.callbacks_with_enqueued_response = s.callbacks_with_enqueued_response

\* C39: whenever reject_subnet_output_request returns an error, for want of
\* response capacity or because push_input refuses the reject response as a
\* duplicate, the reserved slots of the input queue from the receiver, the
\* QueueStats counters, the pool, the schedules and the callback set are
\* what they were before the call
C39_FailedRejectLeavesNoTrace ==
    Running =>
        \A request \in RejectedRequests :
            LET Called(r) ==
                    r.ret /= "Ok" => RejectLeftNoTrace(Self, r.state, request)
            IN  request.callback \notin h_callbacks =>
                    Called(reject_subnet_output_request(Self, request, SubnetIds))

\* the same for the calls that fail for want of response capacity
C39_FullQueueLeavesNoTrace ==
    Running =>
        \A request \in RejectedRequests :
            LET Called(r) ==
                    r.ret = "QueueFull" => RejectLeftNoTrace(Self, r.state, request)
            IN  Called(reject_subnet_output_request(Self, request, SubnetIds))

\* a call of reject_subnet_output_request fails for want of response capacity
C39_RejectFailsOnFullQueue ==
    /\ Running
    /\ \E request \in RejectedRequests :
           reject_subnet_output_request(Self, request, SubnetIds).ret = "QueueFull"

\* the queue items of s that hold the id: <<peer, 1 (input) or 2 (output),
\* position>>
ReferencesTo(s, id) ==
    UNION {{<<c, i, k>> : k \in {k \in 1..Len(s.canister_queues[c][i].queue) :
                                     s.canister_queues[c][i].queue[k] = id}} :
              c \in DOMAIN s.canister_queues, i \in {1, 2}}

\* the queue a message of the pool belongs in: the input queue from its
\* sender if its id is an inbound one, the output queue to its receiver
\* otherwise
HomeQueue(id, msg) ==
    IF IdContext(id) = "Inbound" THEN <<msg.sender, 1>> ELSE <<msg.receiver, 2>>

\* C40: every message in the pool is referenced by exactly one queue item,
\* in the input queue from its sender if its id is inbound and in the output
\* queue to its receiver if it is outbound: the pool holds no unreferenced
\* message and no two queue items resolve to the same message
C40_PoolQueueCorrespondence ==
    panicked = "" =>
        \A id \in DOMAIN pool.messages :
            /\ Cardinality(ReferencesTo(Self, id)) = 1
            /\ \A ref \in ReferencesTo(Self, id) :
                   <<ref[1], ref[2]>> = HomeQueue(id, pool.messages[id])

\* C40 witness: messages in both directions are in the pool next to a stale
\* reference, that of a message taken out of the pool
C40_ResidentAndStaleReferences ==
    /\ panicked = ""
    /\ \E id \in DOMAIN pool.messages : IdContext(id) = "Inbound"
    /\ \E id \in DOMAIN pool.messages : IdContext(id) = "Outbound"
    /\ \E c \in DOMAIN canister_queues, i \in {1, 2} :
           \E k \in 1..Len(canister_queues[c][i].queue) :
               canister_queues[c][i].queue[k] \notin DOMAIN pool.messages

============================================================================
